---- MODULE Spec2Model ----
(***************************************************************************)
(* Model of the socvidl download core.                                     *)
(*                                                                         *)
(*   SegmentDownloader (SegmentDownloader.ts): downloadSegments,           *)
(*   downloadSegmentWithRetry, concatenateSegments.                        *)
(*   VideoExtractor (VideoExtractor.ts): findHighestQuality and helpers,   *)
(*   parseM3U8, resolveUrl, getVideoSource, fetchAndParseM3U8.             *)
(*   SegmentDownloader.parseSegmentsFromM3U8.                              *)
(*   DownloadManager (DownloadManager.ts): initiateDownload and helpers.   *)
(*   DownloadProgressManager (DownloadProgressManager.ts): startDownload.  *)
(*                                                                         *)
(* One behaviour is one call of a public operation by a client.  The       *)
(* JavaScript run-to-completion rule is kept: every action is one task of  *)
(* the event loop (the call itself, the completion of one transport        *)
(* request, the expiry of one backoff timer, an abort() by the client)     *)
(* together with all the promise reactions that run before the next task.  *)
(***************************************************************************)
EXTENDS Integers, Sequences, FiniteSets, TLC

VARIABLES
    op,                  \* the public operation the client called ("none" before the call)
    pc,                  \* position of the called operation: idle, await, spin, done, failed
    segments,            \* downloadSegments argument: sequence of SegmentInfo
    maxRetries,          \* options.maxRetries
    retryDelay,          \* options.retryDelay, in milliseconds
    maxConcurrent,       \* options.maxConcurrent
    onProgress,          \* options.onProgress: "none", "ok" or "throws"
    aborted,             \* options.signal.aborted
    downloadQueue,       \* const downloadQueue = [...segments]
    activeDownloads,     \* keys of the activeDownloads Map
    task,                \* per segment index: the downloadSegmentWithRetry invocation
    downloadedSegments,  \* sparse array of stored ArrayBuffers
    totalBytesDownloaded,\* let totalBytesDownloaded
    fetchLog,            \* per segment index: what the transport was asked and answered (history)
    progressCount,       \* number of onProgress invocations so far (history)
    lastProgress,        \* the progress object of the latest onProgress invocation (history)
    outOfOrder,          \* a segment was stored while one of smaller index was not (history)
    selection,           \* arguments of the findHighestQuality call
    abortSeen,           \* signal.aborted was read as true while the call was unsettled (history)
    result,              \* settled value of the called operation
    request,             \* arguments of the extractor or parser call
    fetches,             \* fetch() invocations of the extractor call, in order (history)
    parsed,              \* getVideoSource: the parsed playlist and the chosen variant
    outcome,             \* settled value of the extractor or parser call
    lastIndex,           \* DownloadManager: forbiddenChars.lastIndex of the shared pattern
    invocation,          \* per call: the DownloadManager.initiateDownload invocation
    startCall,           \* per call: the DownloadProgressManager.startDownload call
    managerActive        \* keys of DownloadProgressManager.activeDownloads

vars == <<op, pc, segments, maxRetries, retryDelay, maxConcurrent, onProgress, aborted,
          downloadQueue, activeDownloads, task, downloadedSegments,
          totalBytesDownloaded, fetchLog, progressCount, lastProgress, outOfOrder,
          selection, abortSeen, result, request, fetches, parsed, outcome,
          lastIndex, invocation, startCall, managerActive>>

\* The state of the extractor and parser calls, the state of the download
\* managers, and the state of the downloader calls.
extractorVars == <<request, fetches, parsed, outcome>>
managerVars == <<lastIndex, invocation, startCall, managerActive>>
downloaderVars == <<segments, maxRetries, retryDelay, maxConcurrent, onProgress, aborted,
                    downloadQueue, activeDownloads, task, downloadedSegments,
                    totalBytesDownloaded, fetchLog, progressCount, lastProgress,
                    outOfOrder, selection, abortSeen, result>>

----------------------------------------------------------------------------
(* Bounds of the model *)

MaxSegments == 2          \* longest segment list given to downloadSegments
MaxRetriesBound == 1      \* options.maxRetries is drawn from 0..MaxRetriesBound
MaxConcurrentBound == 2   \* options.maxConcurrent is drawn from 0..MaxConcurrentBound

\* Segment indices are drawn from 0..MaxSegments - 1: a list shorter than
\* MaxSegments may leave indices out.
Indices == 0..(MaxSegments - 1)

----------------------------------------------------------------------------
(* Values *)

Min(a, b) == IF a < b THEN a ELSE b
Max(a, b) == IF a > b THEN a ELSE b

RECURSIVE SumLen(_)
SumLen(s) == IF s = <<>> THEN 0 ELSE Len(Head(s)) + SumLen(Tail(s))

RECURSIVE Flatten(_)
Flatten(s) == IF s = <<>> THEN <<>> ELSE Head(s) \o Flatten(Tail(s))

\* An element of a JavaScript array of ArrayBuffers: a hole / undefined, or a buffer.
Undefined == [defined |-> FALSE, bytes |-> <<>>]
Buffer(b) == [defined |-> TRUE, bytes |-> b]

\* Error values.  kind is the message family; a retry-exhausted error names
\* the number of retries and the message of the last underlying error.
NoError == [kind |-> "none", retries |-> 0, last |-> "none"]
Err(k) == [kind |-> k, retries |-> 0, last |-> "none"]
ErrAborted == Err("Download aborted")
ErrNoSegments == Err("No segments provided for download")
ErrNothingToConcat == Err("No segments to concatenate")
ErrNoValidSegments == Err("No valid segments to concatenate")
ErrRetryExhausted(n, lastKind) ==
    [kind |-> "Failed to download segment after retries", retries |-> n, last |-> lastKind]

\* A variant of a master playlist.  id is the position of the object in the
\* list given to the selector (0 for null), so that equal-looking variants
\* stay distinct objects.
NullVariant == [id |-> 0, bandwidth |-> 0, hasResolution |-> FALSE, width |-> 0, height |-> 0]

\* The settled value of an operation: nothing yet, a thrown error, or a
\* returned value (blob and size of a download or concatenation, variant of
\* a selection).
NoResult ==
    [status |-> "none", error |-> NoError, blob |-> <<>>, size |-> 0, variant |-> NullVariant]
Thrown(e) == [NoResult EXCEPT !.status = "error", !.error = e]
Returned(v) == [NoResult EXCEPT !.status = "ok", !.variant = v]

\* Non-empty bodies the transport may deliver for the segment with index i.
Payloads(i) == { <<i>>, <<i, i + 10>> }

\* What the transport may answer to one fetch(): it throws or rejects, or it
\* resolves with a response of some status whose body has some bytes.
TransportThrows == [threw |-> TRUE, ok |-> FALSE, body |-> <<>>]
Response(ok, body) == [threw |-> FALSE, ok |-> ok, body |-> body]
Answers(i) ==
    {TransportThrows, Response(FALSE, <<>>), Response(TRUE, <<>>)}
        \cup { Response(TRUE, b) : b \in Payloads(i) }

SegmentInfo(i) == [index |-> i]

\* Segment lists with pairwise distinct indices, in any order.
SegmentLists ==
    UNION { { s \in [1..n -> Indices] :
                \A a, b \in 1..n : a # b => s[a] # s[b] } : n \in 0..MaxSegments }

ToSegments(idxs) == [k \in 1..Len(idxs) |-> SegmentInfo(idxs[k])]

----------------------------------------------------------------------------
(* SegmentDownloader: pure parts *)

\* Mutant of StoreSegment: downloadedSegments.push(data), completion order.
StoreSegment_push(arr, index, data) == Append(arr, Buffer(data))

\* downloadedSegments[index] = data on a JavaScript array: the array grows to
\* index + 1 elements and the elements never assigned stay holes.
StoreSegment(arr, index, data) ==
    [k \in 1..Max(Len(arr), index + 1) |->
        IF k = index + 1 THEN Buffer(data)
        ELSE IF k <= Len(arr) THEN arr[k] ELSE Undefined]

\* Mutant of CompletedCount: downloadedSegments.length, holes counted.
CompletedCount_length(arr) == Len(arr)

\* downloadedSegments.filter(Boolean).length
CompletedCount(arr) == Len(SelectSeq(arr, LAMBDA e : e.defined))

\* Math.round(x / y * 100) for non-negative x and positive y (round half up).
RoundPercent(x, y) == (200 * x + y) \div (2 * y)

NoProgress ==
    [currentSegment |-> 0, totalSegments |-> 0, percentage |-> 0, bytesDownloaded |-> 0]

\* The progress object built after a segment was stored.
ProgressOf(arr, total, n) ==
    [currentSegment |-> CompletedCount(arr),
     totalSegments |-> n,
     percentage |-> RoundPercent(CompletedCount(arr), n),
     bytesDownloaded |-> total]

\* Mutant of concatenateSegments: an array with a missing segment is an error
\* instead of a warning.
concatenateSegments_strict(arr) ==
    LET validSegments == SelectSeq(arr, LAMBDA e : e.defined)
        blob == Flatten([k \in 1..Len(validSegments) |-> validSegments[k].bytes])
    IN  IF Len(arr) = 0
          THEN Thrown(ErrNothingToConcat)
        ELSE IF Len(validSegments) # Len(arr)
          THEN Thrown(ErrNoValidSegments)
        ELSE [NoResult EXCEPT !.status = "ok", !.blob = blob, !.size = Len(blob)]

\* concatenateSegments(segments): throws on an empty array and on an array
\* without a defined element, else the Blob of the defined elements in
\* array order.
concatenateSegments(arr) ==
    LET validSegments == SelectSeq(arr, LAMBDA e : e.defined)
        blob == Flatten([k \in 1..Len(validSegments) |-> validSegments[k].bytes])
    IN  IF Len(arr) = 0
          THEN Thrown(ErrNothingToConcat)
        ELSE IF Len(validSegments) = 0
          THEN Thrown(ErrNoValidSegments)
        ELSE [NoResult EXCEPT !.status = "ok", !.blob = blob, !.size = Len(blob)]

----------------------------------------------------------------------------
(* SegmentDownloader.downloadSegmentWithRetry: one invocation per segment *)

\* waits lists the backoff delays the invocation has slept or is sleeping
\* (history).
NoTask == [st |-> "none", attempt |-> 0, value |-> <<>>, error |-> NoError, waits |-> <<>>]

\* Mutant of AbortObserved: the flag is never seen set.
AbortObserved_never(ab) == FALSE

\* signal?.aborted === true, as read by the coordinator and by each attempt.
AbortObserved(ab) == ab

\* Mutant of BeginAttempt: the attempt starts without reading the signal.
BeginAttempt_unchecked(t, a, ab) == [t EXCEPT !.st = "fetching", !.attempt = a]

\* for (attempt ...) { try { if (signal?.aborted) throw ...; await fetch(...) :
\* the start of attempt number a.  With the signal aborted the 'Download
\* aborted' error is thrown, caught and rethrown, which rejects the promise.
BeginAttempt(t, a, ab) ==
    IF AbortObserved(ab)
      THEN [t EXCEPT !.st = "rejected", !.attempt = a, !.error = ErrAborted]
      ELSE [t EXCEPT !.st = "fetching", !.attempt = a]

\* The try block after the transport answered: the error it throws, "none"
\* when it returns the body.
AttemptError(ans) ==
    IF ans.threw THEN "Transport error"
    ELSE IF ~ans.ok THEN "HTTP error"
    ELSE IF Len(ans.body) = 0 THEN "Empty segment received"
    ELSE "none"

\* Mutant of ShouldRetry: attempt <= maxRetries, one retry too many.
ShouldRetry_inclusive(attempt, retries) == attempt <= retries

\* if (attempt < maxRetries) { ... await this.sleep(delay) }
ShouldRetry(attempt, retries) == attempt < retries

\* Mutant of BackoffDelay: the delay grows by retryDelay with every retry.
BackoffDelay_linear(delay, attempt) == delay * (attempt + 1)

\* retryDelay * Math.pow(SegmentDownloader.EXPONENTIAL_BACKOFF_FACTOR, attempt)
EXPONENTIAL_BACKOFF_FACTOR == 2
BackoffDelay(delay, attempt) == delay * EXPONENTIAL_BACKOFF_FACTOR ^ attempt

\* if (signal?.aborted ?? (error instanceof Error && error.message ===
\* 'Download aborted')): with a signal, its aborted flag alone decides.
AbortedInCatch(ab) == ab

\* The catch block of an attempt that failed with error kind k.  lastError is
\* written here and read only by the throw after the loop, which follows the
\* last catch without a suspension, so it is k there.
AttemptFailed(t, k, retries, delay, ab) ==
    IF AbortedInCatch(ab)
      THEN [t EXCEPT !.st = "rejected", !.error = Err(k)]
    ELSE IF ShouldRetry(t.attempt, retries)
      THEN [t EXCEPT !.st = "sleeping",
                     !.waits = Append(@, BackoffDelay(delay, t.attempt))]
    ELSE [t EXCEPT !.st = "rejected", !.error = ErrRetryExhausted(retries, k)]

\* return data
AttemptSucceeded(t, data) == [t EXCEPT !.st = "fulfilled", !.value = data]

\* What is recorded of the transport for one segment: fetch() invocations,
\* failed answers, and the body of the successful answer.
\* order is the rank of the segment's first fetch() among the first
\* fetch() invocations of all segments, 0 before it.  late counts the
\* fetch() invocations made after downloadSegments had settled, and
\* lateProgress tells that the segment's onProgress callback ran after it.
NoFetch ==
    [calls |-> 0, failures |-> 0, body |-> <<>>, order |-> 0, late |-> 0,
     lateProgress |-> FALSE]
Invoked(f) == [f EXCEPT !.calls = @ + 1]
InvokedAt(f, p) ==
    IF p \in {"done", "failed"} THEN [Invoked(f) EXCEPT !.late = @ + 1] ELSE Invoked(f)
ReportedAt(f, p) ==
    IF p \in {"done", "failed"} THEN [f EXCEPT !.lateProgress = TRUE] ELSE f
FirstInvoked(f, rank) == [Invoked(f) EXCEPT !.order = rank]
AnsweredFailure(f) == [f EXCEPT !.failures = @ + 1]
AnsweredBody(f, b) == [f EXCEPT !.body = b]

----------------------------------------------------------------------------
(* SegmentDownloader.downloadSegments: the coordinator *)

\* Mutant of AdmitCount: while (downloadQueue.length > 0), no ceiling.
AdmitCount_uncapped(q, act, mc) == Len(q)

\* Mutant of AdmitCount: activeDownloads.size < maxConcurrent - 1, one slot
\* of the window is never used.
AdmitCount_starved(q, act, mc) == Min(Len(q), Max(0, mc - 1 - Cardinality(act)))

\* while (downloadQueue.length > 0 && activeDownloads.size < maxConcurrent):
\* how many segments the inner loop takes from the queue.
AdmitCount(q, act, mc) == Min(Len(q), Max(0, mc - Cardinality(act)))

\* Mutant of Shift: downloadQueue.pop(), the queue is served from its end.
Shift_pop(q, n) ==
    [taken |-> [k \in 1..n |-> q[Len(q) + 1 - k]], rest |-> SubSeq(q, 1, Len(q) - n)]

\* n times downloadQueue.shift(): the segments taken, in the order they are
\* taken, and the queue left.
Shift(q, n) == [taken |-> SubSeq(q, 1, n), rest |-> SubSeq(q, n + 1, Len(q))]

\* Mutant of CoordinatorLoop: the signal is read before the loop condition,
\* so a cancellation is seen when the last segment has settled, too.
CoordinatorLoop_abortFirst(q, act, tk, fl, arr, mc, ab) ==
    LET n == AdmitCount(q, act, mc)
        shifted == Shift(q, n)
        admitted == { shifted.taken[k].index : k \in 1..n }
        started == Cardinality({ i \in Indices : fl[i].calls > 0 })
        rank(i) == started + (CHOOSE k \in 1..n : shifted.taken[k].index = i)
        act2 == act \cup admitted
        frozen == [pc |-> "failed", queue |-> q, active |-> act, task |-> tk,
                   fetchLog |-> fl, seen |-> FALSE, result |-> NoResult]
    IN  IF AbortObserved(ab)
          THEN [frozen EXCEPT !.seen = TRUE, !.result = Thrown(ErrAborted)]
        ELSE IF Len(q) = 0 /\ act = {}
          THEN LET c == concatenateSegments(arr)
               IN  [frozen EXCEPT !.pc = IF c.status = "ok" THEN "done" ELSE "failed",
                                  !.result = c]
        ELSE [pc |-> IF act2 = {} THEN "spin" ELSE "await",
              queue |-> shifted.rest,
              active |-> act2,
              task |-> [i \in Indices |->
                          IF i \in admitted THEN BeginAttempt(NoTask, 0, ab) ELSE tk[i]],
              fetchLog |-> [i \in Indices |->
                          IF i \in admitted THEN FirstInvoked(fl[i], rank(i)) ELSE fl[i]],
              seen |-> FALSE,
              result |-> NoResult]

\* The coordinator from the top of its while loop to its next suspension:
\* exit and concatenate, or abort check, admission and await Promise.race.
\* A queue that cannot be admitted with nothing in flight spins for ever.
CoordinatorLoop(q, act, tk, fl, arr, mc, ab) ==
    LET n == AdmitCount(q, act, mc)
        shifted == Shift(q, n)
        admitted == { shifted.taken[k].index : k \in 1..n }
        started == Cardinality({ i \in Indices : fl[i].calls > 0 })
        rank(i) == started + (CHOOSE k \in 1..n : shifted.taken[k].index = i)
        act2 == act \cup admitted
        frozen == [pc |-> "failed", queue |-> q, active |-> act, task |-> tk,
                   fetchLog |-> fl, seen |-> FALSE, result |-> NoResult]
    IN  IF Len(q) = 0 /\ act = {}
          THEN LET c == concatenateSegments(arr)
               IN  [frozen EXCEPT !.pc = IF c.status = "ok" THEN "done" ELSE "failed",
                                  !.result = c]
        ELSE IF AbortObserved(ab)
          THEN [frozen EXCEPT !.seen = TRUE, !.result = Thrown(ErrAborted)]
        ELSE [pc |-> IF act2 = {} THEN "spin" ELSE "await",
              queue |-> shifted.rest,
              active |-> act2,
              task |-> [i \in Indices |->
                          IF i \in admitted THEN BeginAttempt(NoTask, 0, ab) ELSE tk[i]],
              fetchLog |-> [i \in Indices |->
                          IF i \in admitted THEN FirstInvoked(fl[i], rank(i)) ELSE fl[i]],
              seen |-> FALSE,
              result |-> NoResult]

----------------------------------------------------------------------------
(* VideoExtractor: variant selection *)

Pixels(v) == v.width * v.height

\* The reduce callback of findBestQuality: the one of best and current to keep.
BestOf(best, current) ==
    IF current.hasResolution /\ best.hasResolution /\ Pixels(current) > Pixels(best)
      THEN current
    ELSE IF current.hasResolution /\ best.hasResolution /\ Pixels(current) < Pixels(best)
      THEN best
    ELSE IF current.bandwidth > best.bandwidth THEN current
    ELSE best

\* The reduce callback of findLowestQuality.
LowestOf(lowest, current) ==
    IF current.hasResolution /\ lowest.hasResolution /\ Pixels(current) < Pixels(lowest)
      THEN current
    ELSE IF current.hasResolution /\ lowest.hasResolution /\ Pixels(current) > Pixels(lowest)
      THEN lowest
    ELSE IF current.bandwidth < lowest.bandwidth THEN current
    ELSE lowest

\* variants.reduce(callback) without an initial value, left to right.
RECURSIVE ReduceBest(_, _)
ReduceBest(best, rest) ==
    IF rest = <<>> THEN best ELSE ReduceBest(BestOf(best, Head(rest)), Tail(rest))

RECURSIVE ReduceLowest(_, _)
ReduceLowest(lowest, rest) ==
    IF rest = <<>> THEN lowest ELSE ReduceLowest(LowestOf(lowest, Head(rest)), Tail(rest))

\* Mutant of findBestQuality: no variant is ever selected.
findBestQuality_none(variants) == NullVariant

findBestQuality(variants) ==
    IF Len(variants) = 0 THEN NullVariant
    ELSE ReduceBest(Head(variants), Tail(variants))

findLowestQuality(variants) ==
    IF Len(variants) = 0 THEN NullVariant
    ELSE ReduceLowest(Head(variants), Tail(variants))

\* [...variants].sort((a, b) => a.bandwidth - b.bandwidth): a stable sort.
RECURSIVE InsertByBandwidth(_, _)
InsertByBandwidth(sorted, v) ==
    IF sorted = <<>> THEN <<v>>
    ELSE IF Head(sorted).bandwidth <= v.bandwidth
      THEN <<Head(sorted)>> \o InsertByBandwidth(Tail(sorted), v)
    ELSE <<v>> \o sorted

RECURSIVE SortByBandwidth(_)
SortByBandwidth(s) ==
    IF s = <<>> THEN <<>>
    ELSE InsertByBandwidth(SortByBandwidth(SubSeq(s, 1, Len(s) - 1)), s[Len(s)])

\* Mutant of findMediumQuality: Math.floor((sorted.length - 1) / 2), the lower
\* middle.
findMediumQuality_lowerMiddle(variants) ==
    IF Len(variants) = 0 THEN NullVariant
    ELSE SortByBandwidth(variants)[((Len(variants) - 1) \div 2) + 1]

\* sorted[Math.floor(sorted.length / 2)] ?? null
findMediumQuality(variants) ==
    IF Len(variants) = 0 THEN NullVariant
    ELSE SortByBandwidth(variants)[(Len(variants) \div 2) + 1]

\* Mutant of findHighestQuality: maxBitrate is not applied.
findHighestQuality_unfiltered(variants, preferredQuality, maxBitrate) ==
    IF Len(variants) = 0 THEN NullVariant
    ELSE IF preferredQuality = "highest" THEN findBestQuality(variants)
    ELSE IF preferredQuality = "lowest" THEN findLowestQuality(variants)
    ELSE findMediumQuality(variants)

\* findHighestQuality(variants) of an extractor constructed with
\* preferredQuality and maxBitrate (0 stands for an unset maxBitrate).
findHighestQuality(variants, preferredQuality, maxBitrate) ==
    LET within == SelectSeq(variants, LAMBDA v : v.bandwidth <= maxBitrate)
        filteredVariants ==
            IF maxBitrate > 0
              THEN IF Len(within) = 0 THEN <<findLowestQuality(variants)>> ELSE within
              ELSE variants
    IN  IF Len(variants) = 0 THEN NullVariant
        ELSE IF preferredQuality = "highest" THEN findBestQuality(filteredVariants)
        ELSE IF preferredQuality = "lowest" THEN findLowestQuality(filteredVariants)
        ELSE findMediumQuality(filteredVariants)

----------------------------------------------------------------------------
(* Strings, URLs and header maps *)

\* A string is the sequence of its pieces.  The pieces are chosen so that
\* every pattern the code searches for ('http://', 'https://', 'http', '/',
\* '?', the file extensions) is a whole piece: '/' occurs only as the piece
\* "/" and at the end of a scheme piece.
SchemePieces == {"http://", "https://"}

\* String.prototype.toLowerCase, piece by piece.
ToLowerCase(piece) ==
    IF piece = ".M3U8" THEN ".m3u8"
    ELSE IF piece = ".MP4" THEN ".mp4"
    ELSE IF piece = ".MPD" THEN ".mpd"
    ELSE piece

\* url.toLowerCase().includes(ext)
IncludesLower(url, ext) == \E k \in 1..Len(url) : ToLowerCase(url[k]) = ext

\* url.startsWith('http://') || url.startsWith('https://')
StartsWithScheme(url) == Len(url) > 0 /\ url[1] \in SchemePieces

\* segmentUrl.startsWith('http')
StartsWithHttp(url) == Len(url) > 0 /\ url[1] \in SchemePieces \cup {"http"}

\* url.startsWith('/')
StartsWithSlash(url) == Len(url) > 0 /\ url[1] = "/"

\* s.lastIndexOf('/') as a position among the pieces, 0 when there is none.
RECURSIVE LastSlash(_)
LastSlash(s) ==
    IF s = <<>> THEN 0
    ELSE IF s[Len(s)] \in SchemePieces \cup {"/"} THEN Len(s)
    ELSE LastSlash(SubSeq(s, 1, Len(s) - 1))

\* Position of the first '?' of s, Len(s) + 1 when there is none.
RECURSIVE FirstQuery(_, _)
FirstQuery(s, k) ==
    IF k > Len(s) THEN k
    ELSE IF s[k] = "?" THEN k
    ELSE FirstQuery(s, k + 1)

\* An optional string argument: left out (undefined) or given.
NoString == [given |-> FALSE, s |-> <<>>]
Given(s) == [given |-> TRUE, s |-> s]

\* new URL(baseUrl): a TypeError unless the string is an absolute URL (a
\* scheme followed by a host); otherwise protocol + '//' + host and the
\* pathname, which is '/' when the URL has no path.  An undefined argument
\* is converted to the string 'undefined', which is not an absolute URL.
NewURL(baseUrl) ==
    LET s == baseUrl.s
        valid == /\ baseUrl.given
                 /\ Len(s) >= 2
                 /\ s[1] \in SchemePieces
                 /\ s[2] \notin SchemePieces \cup {"/", "?", "http"}
        path == SubSeq(s, 3, FirstQuery(s, 3) - 1)
    IN  [valid |-> valid,
         origin |-> IF valid THEN SubSeq(s, 1, 2) ELSE <<>>,
         pathname |-> IF valid /\ path # <<>> THEN path ELSE <<"/">>]

\* The value of an expression that may throw.
Threw == [threw |-> TRUE, s |-> <<>>]
Value(s) == [threw |-> FALSE, s |-> s]

\* VideoExtractor.resolveUrl(url, baseUrl)
resolveUrl(url, baseUrl) ==
    LET base == NewURL(baseUrl)
    IN  IF StartsWithScheme(url) THEN Value(url)
        ELSE IF ~base.valid THEN Threw
        ELSE IF StartsWithSlash(url) THEN Value(base.origin \o url)
        ELSE Value(base.origin
                     \o SubSeq(base.pathname, 1, LastSlash(base.pathname) - 1)
                     \o <<"/">> \o url)

\* The URL resolution inside SegmentDownloader.parseSegmentsFromM3U8: none
\* without a base or for a line that starts with 'http'; a rooted line needs
\* new URL(baseUrl); any other line is appended to the base string cut after
\* its last '/'.
ResolveSegmentUrl(line, baseUrl) ==
    IF ~baseUrl.given \/ baseUrl.s = <<>> \/ StartsWithHttp(line) THEN Value(line)
    ELSE IF StartsWithSlash(line)
      THEN IF NewURL(baseUrl).valid THEN Value(NewURL(baseUrl).origin \o line) ELSE Threw
    ELSE Value(SubSeq(baseUrl.s, 1, LastSlash(baseUrl.s)) \o line)

\* An optional header map: left out (undefined) or a set of name/value pairs.
NoHeaders == [given |-> FALSE, fields |-> {}]
Headers(fields) == [given |-> TRUE, fields |-> fields]

\* The init object of a playlist fetch: { headers: headers ?? {}, credentials: 'omit' }
PlaylistFetchInit(headers) ==
    [headers |-> IF headers.given THEN headers.fields ELSE {}, credentials |-> "omit"]

\* The init object of a segment fetch: { signal, headers: { Range: 'bytes=0-' } }
SegmentFetchInit == [headers |-> { <<"Range", "bytes=0-">> }, credentials |-> "default"]

----------------------------------------------------------------------------
(* Playlist texts *)

\* An optional number: undefined, NaN or a number.  In a text, a numeral is
\* given by its value; "empty" is a missing numeral and "text" one that is
\* not a number.
NoNumber == [kind |-> "undefined", n |-> 0]
NaN == [kind |-> "NaN", n |-> 0]
Number(n) == [kind |-> "number", n |-> n]
EmptyNumeral == [kind |-> "empty", n |-> 0]

\* parseFloat / parseInt of a numeral of the text.
ParseNumber(numeral) == IF numeral.kind = "number" THEN Number(numeral.n) ELSE NaN

\* One attribute of a stream-info directive as written: left out, or KEY=
\* followed by a value, which is the sequence of its 'x'-separated numbers
\* (empty for KEY= alone).
AttrKeys == {"BANDWIDTH", "RESOLUTION", "CODECS", "FRAME-RATE", "PROGRAM-ID"}
NoAttr == [given |-> FALSE, v |-> <<>>]
Attr(v) == [given |-> TRUE, v |-> v]
NoAttrs == [key \in AttrKeys |-> NoAttr]

\* One trimmed line of a playlist text, by the case of the scan it falls
\* in: "blank", "comment" (a '#' line that is no '#EXT' directive),
\* "directive" (an '#EXT' line the scan has no case for), "version",
\* "targetDuration", "mediaSequence" (num is the numeral), "streamInf"
\* (attrs), "extinf" (num is the duration numeral, s the title),
\* "discontinuity", "endlist", "playlistType" (s is the type), and "url" (a
\* non-empty line that does not start with '#', s is the line).
Line(k) == [k |-> k, attrs |-> NoAttrs, num |-> NoNumber, s |-> <<>>]
StreamInfLine(attrs) == [Line("streamInf") EXCEPT !.attrs = attrs]
ExtInfLine(numeral) == [Line("extinf") EXCEPT !.num = numeral]
UrlLine(s) == [Line("url") EXCEPT !.s = s]
PlaylistTypeLine(t) == [Line("playlistType") EXCEPT !.s = <<t>>]

----------------------------------------------------------------------------
(* VideoExtractor.parseM3U8 *)

\* x !== null, for a value that is a string or undefined and never null.
IsNotNull(x) == TRUE

\* parseAttributes: a pair whose value is empty is not stored.
parseAttributes(attrs) ==
    [key \in AttrKeys |->
        IF attrs[key].given /\ Len(attrs[key].v) > 0 THEN attrs[key] ELSE NoAttr]

\* An M3U8Variant.  id is the position of the object in its list.
ParsedVariant(bandwidth, codecs, programId) ==
    [id |-> 0, url |-> <<>>, bandwidth |-> bandwidth,
     hasResolution |-> FALSE, width |-> 0, height |-> 0,
     codecs |-> codecs, framerate |-> NoNumber, programId |-> programId]

\* The stream-info case up to the look at the next line: the variant built
\* from the attributes, or a TypeError where .length is read of an attribute
\* that is undefined.
StreamInfVariant(attributes) ==
    LET bandwidth == IF attributes["BANDWIDTH"].given
                       THEN attributes["BANDWIDTH"].v[1] ELSE 0
        programId == IF IsNotNull(attributes["PROGRAM-ID"])
                       THEN IF attributes["PROGRAM-ID"].given
                              THEN Number(attributes["PROGRAM-ID"].v[1]) ELSE NaN
                       ELSE NoNumber
        v0 == ParsedVariant(bandwidth, attributes["CODECS"], programId)
        resolution == attributes["RESOLUTION"]
        frameRate == attributes["FRAME-RATE"]
        v1 == IF Len(resolution.v) = 2
                THEN [v0 EXCEPT !.hasResolution = TRUE,
                                !.width = resolution.v[1], !.height = resolution.v[2]]
                ELSE v0
        v2 == IF frameRate.given
                THEN [v1 EXCEPT !.framerate = Number(frameRate.v[1])]
                ELSE v1
    IN  IF IsNotNull(resolution) /\ ~resolution.given THEN [threw |-> TRUE, variant |-> v0]
        ELSE IF IsNotNull(frameRate) /\ ~frameRate.given THEN [threw |-> TRUE, variant |-> v1]
        ELSE [threw |-> FALSE, variant |-> v2]

\* An M3U8Playlist, or the exception parseM3U8 ended with.
EmptyPlaylist ==
    [threw |-> FALSE, isMaster |-> FALSE, variants |-> <<>>, segments |-> <<>>,
     version |-> NoNumber, targetDuration |-> NoNumber, mediaSequence |-> NoNumber,
     isLive |-> "unset"]
ParseThrew == [EmptyPlaylist EXCEPT !.threw = TRUE]

\* let currentSegment: Partial<M3U8Segment> = {}
NoCurrentSegment == [duration |-> NoNumber, title |-> <<>>, discontinuity |-> FALSE]

\* The lines[i + 1] test of both directive cases: a next line that is not
\* empty and does not start with '#'.
HasUrlLine(lines, i) == i + 1 <= Len(lines) /\ lines[i + 1].k = "url"

\* The URL of a variant or segment: resolved when baseUrl !== null.
LineUrl(url, baseUrl) ==
    IF IsNotNull(baseUrl) /\ Len(url) > 0 THEN resolveUrl(url, baseUrl) ELSE Value(url)

\* The for loop of parseM3U8 from line i on, and the isLive default after it.
RECURSIVE ScanLines(_, _, _, _, _)
ScanLines(lines, i, playlist, currentSegment, baseUrl) ==
    IF i > Len(lines)
      THEN [playlist EXCEPT !.isLive =
                IF Len(playlist.segments) > 0 /\ @ = "unset" THEN "true" ELSE @]
    ELSE
      LET line == lines[i]
          skip == ScanLines(lines, i + 1, playlist, currentSegment, baseUrl)
      IN  CASE line.k \in {"blank", "comment", "directive", "url"} -> skip
            [] line.k = "version" ->
                 ScanLines(lines, i + 1, [playlist EXCEPT !.version = ParseNumber(line.num)],
                           currentSegment, baseUrl)
            [] line.k = "targetDuration" ->
                 ScanLines(lines, i + 1,
                           [playlist EXCEPT !.targetDuration = ParseNumber(line.num)],
                           currentSegment, baseUrl)
            [] line.k = "mediaSequence" ->
                 ScanLines(lines, i + 1,
                           [playlist EXCEPT !.mediaSequence = ParseNumber(line.num)],
                           currentSegment, baseUrl)
            [] line.k = "streamInf" ->
                 LET built == StreamInfVariant(parseAttributes(line.attrs))
                     master == [playlist EXCEPT !.isMaster = TRUE]
                     u == LineUrl(lines[i + 1].s, baseUrl)
                     variant == [built.variant EXCEPT !.url = u.s,
                                                      !.id = Len(playlist.variants) + 1]
                 IN  IF built.threw THEN ParseThrew
                     ELSE IF ~HasUrlLine(lines, i)
                       THEN ScanLines(lines, i + 1, master, currentSegment, baseUrl)
                     ELSE IF u.threw THEN ParseThrew
                     ELSE ScanLines(lines, i + 2,
                                    [master EXCEPT !.variants = Append(@, variant)],
                                    currentSegment, baseUrl)
            [] line.k = "extinf" ->
                 LET cur == [currentSegment EXCEPT
                                !.duration = IF line.num.kind # "empty"
                                               THEN ParseNumber(line.num) ELSE @,
                                !.title = line.s]
                     u == LineUrl(lines[i + 1].s, baseUrl)
                     segment == [url |-> u.s, duration |-> cur.duration,
                                 title |-> cur.title,
                                 sequence |-> Len(playlist.segments),
                                 discontinuity |-> cur.discontinuity]
                 IN  IF ~HasUrlLine(lines, i)
                       THEN ScanLines(lines, i + 1, playlist, cur, baseUrl)
                     ELSE IF u.threw THEN ParseThrew
                     ELSE ScanLines(lines, i + 2,
                                    IF cur.duration.kind # "undefined"
                                      THEN [playlist EXCEPT !.segments = Append(@, segment)]
                                      ELSE playlist,
                                    NoCurrentSegment, baseUrl)
            [] line.k = "discontinuity" ->
                 ScanLines(lines, i + 1, playlist,
                           [currentSegment EXCEPT !.discontinuity = TRUE], baseUrl)
            [] line.k = "endlist" ->
                 ScanLines(lines, i + 1, [playlist EXCEPT !.isLive = "false"],
                           currentSegment, baseUrl)
            [] line.k = "playlistType" ->
                 ScanLines(lines, i + 1,
                           [playlist EXCEPT !.isLive =
                               IF line.s = <<"VOD">> THEN "false" ELSE "true"],
                           currentSegment, baseUrl)

\* parseM3U8(content, baseUrl): content is the sequence of its trimmed lines.
parseM3U8(content, baseUrl) ==
    ScanLines(content, 1, EmptyPlaylist, NoCurrentSegment, baseUrl)

----------------------------------------------------------------------------
(* SegmentDownloader.parseSegmentsFromM3U8 *)

\* The list of SegmentInfo, or the exception the parse ended with.
NoSegmentList == [threw |-> FALSE, segments |-> <<>>]

\* The for loop of parseSegmentsFromM3U8 from line i on.  An EXTINF line
\* whose duration does not match [\d.]+ reads durationMatch[1] of null.
RECURSIVE ScanSegments(_, _, _, _, _)
ScanSegments(lines, i, list, currentDuration, baseUrl) ==
    IF i > Len(lines) THEN list
    ELSE
      LET line == lines[i]
          u == ResolveSegmentUrl(line.s, baseUrl)
          segment == [url |-> u.s, duration |-> currentDuration,
                      index |-> Len(list.segments)]
      IN  IF line.k = "extinf"
            THEN IF line.num.kind # "number"
                   THEN [list EXCEPT !.threw = TRUE]
                   ELSE ScanSegments(lines, i + 1, list, line.num.n, baseUrl)
          ELSE IF line.k = "url" /\ currentDuration > 0
            THEN IF u.threw THEN [list EXCEPT !.threw = TRUE]
                 ELSE ScanSegments(lines, i + 1,
                                   [list EXCEPT !.segments = Append(@, segment)],
                                   0, baseUrl)
          ELSE ScanSegments(lines, i + 1, list, currentDuration, baseUrl)

parseSegmentsFromM3U8(m3u8Content, baseUrl) ==
    ScanSegments(m3u8Content, 1, NoSegmentList, 0, baseUrl)

----------------------------------------------------------------------------
(* VideoExtractor.getVideoSource *)

\* const videoExtensions = ['.mp4', '.webm', '.ogg', '.mov', '.avi', '.mkv']
videoExtensions == {".mp4", ".webm", ".ogg", ".mov", ".avi", ".mkv"}

\* Mutant of isDirectVideo: the extension must end the URL.
isDirectVideo_suffix(url) ==
    url # <<>> /\ ToLowerCase(url[Len(url)]) \in videoExtensions

\* Mutant of isDirectVideo: no extension is recognized.
isDirectVideo_never(url) == FALSE

isDirectVideo(url) == \E ext \in videoExtensions : IncludesLower(url, ext)
isM3U8(url) == IncludesLower(url, ".m3u8")

getQualityLabel(height) ==
    IF height >= 2160 THEN "4K"
    ELSE IF height >= 1440 THEN "1440p"
    ELSE IF height >= 1080 THEN "1080p"
    ELSE IF height >= 720 THEN "720p"
    ELSE IF height >= 480 THEN "480p"
    ELSE IF height >= 360 THEN "360p"
    ELSE IF height >= 240 THEN "240p"
    ELSE "144p"

\* A VideoQuality; given is FALSE for a source without quality.
NoQuality ==
    [given |-> FALSE, label |-> "", width |-> 0, height |-> 0, bitrate |-> 0,
     framerate |-> NoNumber, codecs |-> NoAttr]

\* variantToQuality: the resolution of a variant without one is 0x0.
variantToQuality(variant) ==
    [given |-> TRUE, label |-> getQualityLabel(variant.height),
     width |-> variant.width, height |-> variant.height,
     bitrate |-> variant.bandwidth, framerate |-> variant.framerate,
     codecs |-> variant.codecs]

\* A VideoSource, or null.
NullSource ==
    [isNull |-> TRUE, url |-> <<>>, type |-> "", quality |-> NoQuality, headers |-> NoHeaders]
Source(url, type, quality, headers) ==
    [isNull |-> FALSE, url |-> url, type |-> type, quality |-> quality, headers |-> headers]

\* What the transport may answer to a playlist fetch: "threw" (fetch or
\* response.text() rejects), "status" (a response that is not ok), or "ok"
\* with the text of the body.
PlaylistThrows == [answer |-> "threw", text |-> <<>>]
PlaylistStatus == [answer |-> "status", text |-> <<>>]
PlaylistText(text) == [answer |-> "ok", text |-> text]

\* One fetch() invocation: its arguments and, once settled, its answer.
Fetch(kind, url, init) == [kind |-> kind, url |-> url, init |-> init, answer |-> "pending"]

\* Mutant of fetchAndParseM3U8: response.ok is not tested.
fetchAndParseM3U8_anyStatus(ans, url) ==
    IF ans.answer = "threw" THEN [isNull |-> TRUE, playlist |-> EmptyPlaylist]
    ELSE LET p == parseM3U8(ans.text, Given(url))
         IN  IF p.threw THEN [isNull |-> TRUE, playlist |-> EmptyPlaylist]
             ELSE [isNull |-> FALSE, playlist |-> p]

\* fetchAndParseM3U8 once the transport answered: the playlist parsed with
\* the fetched URL as base, or null when anything in the try block threw.
fetchAndParseM3U8(ans, url) ==
    IF ans.answer # "ok" THEN [isNull |-> TRUE, playlist |-> EmptyPlaylist]
    ELSE LET p == parseM3U8(ans.text, Given(url))
         IN  IF p.threw THEN [isNull |-> TRUE, playlist |-> EmptyPlaylist]
             ELSE [isNull |-> FALSE, playlist |-> p]

----------------------------------------------------------------------------
(* DownloadManager: filenames *)

\* A filename is the sequence of its units.  A unit is one character, except
\* the words below, which stand for that many characters; "long" stands for
\* a run of 300 ordinary characters.
CharLen(unit) ==
    CASE unit \in {"CON", "con", "mp4"} -> 3
      [] unit = "user" -> 4
      [] unit \in {"twitter", "unknown"} -> 7
      [] unit = "1700000000000" -> 13
      [] unit = "long" -> 300
      [] OTHER -> 1

RECURSIVE CharLength(_)
CharLength(s) == IF s = <<>> THEN 0 ELSE CharLen(Head(s)) + CharLength(Tail(s))

\* The index, counted in characters from 0, at which unit k of s starts.
Offset(s, k) == CharLength(SubSeq(s, 1, k - 1))

\* private readonly maxFilenameLength = 255
maxFilenameLength == 255

\* private readonly forbiddenChars = /[<>:"/\\|?*\x00-\x1F]/g : the characters
\* of the class that occur in the filenames of the model.
ForbiddenUnits == {"<", "/", ":"}

\* private readonly reservedNames = ['CON', ...]
reservedNames ==
    {"CON", "PRN", "AUX", "NUL", "COM1", "COM2", "COM3", "COM4", "COM5", "COM6",
     "COM7", "COM8", "COM9", "LPT1", "LPT2", "LPT3", "LPT4", "LPT5", "LPT6", "LPT7",
     "LPT8", "LPT9"}

ToUpperCase(unit) == IF unit = "con" THEN "CON" ELSE unit

\* this.forbiddenChars.test(s) on a pattern with the g flag: the search
\* starts at lastIndex; a match leaves lastIndex behind the matched
\* character, a failed search resets it to 0.
RegExpTest(s, start) ==
    LET hits == { k \in 1..Len(s) : s[k] \in ForbiddenUnits /\ Offset(s, k) >= start }
        first == CHOOSE k \in hits : \A j \in hits : k <= j
    IN  IF start > CharLength(s) \/ hits = {}
          THEN [match |-> FALSE, lastIndex |-> 0]
          ELSE [match |-> TRUE, lastIndex |-> Offset(s, first) + 1]

\* filename.split('.')[0]: the units before the first '.'.
RECURSIVE BeforeDot(_)
BeforeDot(s) ==
    IF s = <<>> \/ Head(s) = "." THEN <<>> ELSE <<Head(s)>> \o BeforeDot(Tail(s))

IsReserved(s) == Len(BeforeDot(s)) = 1 /\ ToUpperCase(BeforeDot(s)[1]) \in reservedNames

\* /\.{2,}/.test(filename)
HasDoubleDot(s) == \E k \in 1..(Len(s) - 1) : s[k] = "." /\ s[k + 1] = "."

\* isValidFilename(filename): the verdict and the lastIndex the shared
\* pattern is left with.  The pattern is tested only when the length checks
\* pass.
isValidFilename(filename, start) ==
    LET tested == RegExpTest(filename, start)
    IN  IF Len(filename) = 0 \/ CharLength(filename) > maxFilenameLength
          THEN [valid |-> FALSE, lastIndex |-> start]
        ELSE IF tested.match
          THEN [valid |-> FALSE, lastIndex |-> tested.lastIndex]
        ELSE [valid |-> ~IsReserved(filename)
                        /\ filename[1] # "."
                        /\ filename[Len(filename)] # "."
                        /\ ~HasDoubleDot(filename),
              lastIndex |-> tested.lastIndex]

\* input.replace(this.forbiddenChars, '_')
ReplaceForbidden(s) == [k \in 1..Len(s) |-> IF s[k] \in ForbiddenUnits THEN "_" ELSE s[k]]

\* sanitized.replace(/^[.\s]+|[.\s]+$/g, ''), for the dots.
RECURSIVE StripLeadingDots(_)
StripLeadingDots(s) ==
    IF s # <<>> /\ Head(s) = "." THEN StripLeadingDots(Tail(s)) ELSE s

RECURSIVE StripTrailingDots(_)
StripTrailingDots(s) ==
    IF s # <<>> /\ s[Len(s)] = "." THEN StripTrailingDots(SubSeq(s, 1, Len(s) - 1)) ELSE s

\* filename.replace(/[_-]{2,}/g, '_'), for the underscores.
RECURSIVE CollapseUnderscores(_)
CollapseUnderscores(s) ==
    IF Len(s) < 2 THEN s
    ELSE IF s[1] = "_" /\ s[2] = "_" THEN CollapseUnderscores(Tail(s))
    ELSE <<Head(s)>> \o CollapseUnderscores(Tail(s))

\* sanitizeFilename(input) of a non-empty input without whitespace, hyphens
\* and inner runs of dots; an input that sanitizes to nothing becomes the
\* current time.
sanitizeFilename(input) ==
    LET stripped == StripTrailingDots(StripLeadingDots(ReplaceForbidden(input)))
        guarded == IF IsReserved(stripped) THEN <<"_">> \o stripped ELSE stripped
    IN  IF guarded = <<>> THEN <<"1700000000000">> ELSE guarded

\* DownloadOptions of DownloadManager: filename and username are optional
\* strings, url and blob are given or not, platform is 'twitter' or left
\* out, timestamp is a time or a number that is no time (NaN).
NoOptions ==
    [filename |-> NoString, url |-> FALSE, blob |-> FALSE, platform |-> NoString,
     username |-> NoString, timestamp |-> "time"]

\* generateFilename(options) with the default template
\* '{platform}_{username}_{timestamp}': date.toISOString() throws a
\* RangeError for a timestamp that is no time; every sanitizeFilename call
\* runs replace on the shared pattern, which leaves lastIndex at 0.
generateFilename(options) ==
    LET platform == IF options.platform.given THEN options.platform.s ELSE <<"unknown">>
        username == IF options.username.given THEN options.username.s ELSE <<"user">>
        filled == sanitizeFilename(platform) \o <<"_">> \o sanitizeFilename(username)
                    \o <<"_", "1700000000000">>
    IN  IF options.timestamp # "time"
          THEN [threw |-> TRUE, s |-> <<>>]
          ELSE [threw |-> FALSE, s |-> CollapseUnderscores(filled) \o <<".", "mp4">>]

----------------------------------------------------------------------------
(* DownloadManager.initiateDownload *)

\* A DownloadResult: not settled yet, or { success, error }.
NoDownloadResult == [settled |-> FALSE, success |-> FALSE, error |-> ""]
Succeeded == [settled |-> TRUE, success |-> TRUE, error |-> ""]
Failed(message) == [settled |-> TRUE, success |-> FALSE, error |-> message]

\* Mutant of InitiateSync: a call without url and blob goes on to the
\* download API with an undefined url.
InitiateSync_noSourceCheck(options, api, start) ==
    [error |-> IF ~api THEN "Chrome Downloads API not available" ELSE "none",
     filename |-> <<>>, lastIndex |-> start]

\* initiateDownload from its start to the call of chrome.downloads.download:
\* the message of the error thrown on the way ("none" when the download API
\* is reached), the filename, and the lastIndex of the shared pattern.
InitiateSync(options, api, start) ==
    LET supplied == options.filename.given /\ options.filename.s # <<>>
        generated == generateFilename(options)
        filename == IF supplied THEN options.filename.s ELSE generated.s
        before == IF supplied THEN start ELSE 0
        checked == isValidFilename(filename, before)
    IN  IF ~api
          THEN [error |-> "Chrome Downloads API not available",
                filename |-> <<>>, lastIndex |-> start]
        ELSE IF ~supplied /\ generated.threw
          THEN [error |-> "Invalid time value", filename |-> <<>>, lastIndex |-> 0]
        ELSE IF ~checked.valid
          THEN [error |-> "Invalid filename generated",
                filename |-> filename, lastIndex |-> checked.lastIndex]
        ELSE IF ~options.blob /\ ~options.url
          THEN [error |-> "No URL or blob provided for download",
                filename |-> filename, lastIndex |-> checked.lastIndex]
        ELSE [error |-> "none", filename |-> filename, lastIndex |-> checked.lastIndex]

\* One initiateDownload invocation: its position ("none", "download" while
\* chrome.downloads.download is pending, "search" while
\* chrome.downloads.search is pending, "timer" between two polls, "done"),
\* its arguments, how often it invoked the two host calls, and its result.
NoInvocation ==
    [pc |-> "none", options |-> NoOptions, api |-> TRUE, filename |-> <<>>,
     downloads |-> 0, searches |-> 0, result |-> NoDownloadResult]

\* The invocation after its synchronous part.
Initiated(options, api, start) ==
    LET sync == InitiateSync(options, api, start)
    IN  IF sync.error # "none"
          THEN [NoInvocation EXCEPT !.pc = "done", !.options = options, !.api = api,
                                    !.filename = sync.filename,
                                    !.result = Failed(sync.error)]
          ELSE [NoInvocation EXCEPT !.pc = "download", !.options = options, !.api = api,
                                    !.filename = sync.filename, !.downloads = 1]

\* The callback of chrome.downloads.download: runtime.lastError is set, the
\* id is undefined, or the download got an id and monitorDownload searches it.
DownloadAnswers == {"lastError", "undefined", "id"}
AfterDownloadCallback(d, ans) ==
    CASE ans = "lastError" -> [d EXCEPT !.pc = "done", !.result = Failed("lastError")]
      [] ans = "undefined" ->
           [d EXCEPT !.pc = "done", !.result = Failed("Download failed to start")]
      [] ans = "id" -> [d EXCEPT !.pc = "search", !.searches = @ + 1]

\* The callback of chrome.downloads.search in monitorDownload.
SearchAnswers == {"lastError", "notFound", "complete", "interrupted", "in_progress"}
AfterSearchCallback(d, ans) ==
    CASE ans = "lastError" -> [d EXCEPT !.pc = "done", !.result = Failed("lastError")]
      [] ans = "notFound" -> [d EXCEPT !.pc = "done", !.result = Failed("Download not found")]
      [] ans = "complete" -> [d EXCEPT !.pc = "done", !.result = Succeeded]
      [] ans = "interrupted" ->
           [d EXCEPT !.pc = "done", !.result = Failed("Download interrupted: Unknown error")]
      [] ans = "in_progress" -> [d EXCEPT !.pc = "timer"]

\* setTimeout(checkDownload, 500) fires.
AfterPollTimer(d) == [d EXCEPT !.pc = "search", !.searches = @ + 1]

----------------------------------------------------------------------------
(* DownloadProgressManager.startDownload *)

MaxCalls == 2    \* startDownload calls that are unsettled at the same time
MaxPolls == 1    \* polls of one download that find it still in progress

\* Call 0 is the initiateDownload call a client makes on the DownloadManager
\* itself; calls 1..MaxCalls are startDownload calls, each with the
\* initiateDownload invocation it makes.  A settled call leaves its place to
\* the next one.
Calls == 1..MaxCalls
Slots == 0..MaxCalls

VideoIds == {"v1", "v2"}

\* A DetectedVideo: id, whether url and metadata.blob are there, and
\* metadata.username.
NoVideo == [id |-> "", url |-> FALSE, blob |-> FALSE, username |-> NoString]

\* One startDownload call: its position ("none", "skipped" when it returned
\* at the duplicate check, "preparing" during simulatePreparation,
\* "downloading" while initiateDownload is pending, "done"), its request,
\* and how it ended ("complete", "error" with the message given to the
\* error state, "rejected" when onError threw).
NoStartCall ==
    [pc |-> "none", video |-> NoVideo, filename |-> NoString, callbacks |-> "none",
     outcome |-> "none", error |-> ""]

\* What is kept of a settled call: the id of its video and how it ended.
Closed(c) == [NoStartCall EXCEPT !.pc = "done", !.video.id = c.video.id]

\* The catch block, then the promise settles.
Errored(c, message) ==
    [Closed(c) EXCEPT !.error = message,
                      !.outcome = IF c.callbacks = "onErrorThrows" THEN "rejected"
                                  ELSE "error"]

\* startDownload after initiateDownload resolved with result.
Resumed(c, res) ==
    IF res.success
      THEN IF c.callbacks = "onCompleteThrows"
             THEN Errored(c, "onComplete threw")
             ELSE [Closed(c) EXCEPT !.outcome = "complete"]
      ELSE Errored(c, res.error)

\* const downloadOptions = { platform, username, postId, timestamp,
\* ...options }, then blob or url of the video.
DownloadOptionsOf(c) ==
    [filename |-> c.filename, url |-> ~c.video.blob /\ c.video.url, blob |-> c.video.blob,
     platform |-> Given(<<"twitter">>), username |-> c.video.username, timestamp |-> "time"]

\* Mutant of IsActive: the duplicate check is gone.
IsActive_never(activeIds, id) == FALSE

\* this.activeDownloads.has(video.id)
IsActive(activeIds, id) == id \in activeIds

\* Mutant of Cleanup: the finally block forgets the id.
Cleanup_keep(activeIds, id) == activeIds

\* finally { this.activeDownloads.delete(video.id) }
Cleanup(activeIds, id) == activeIds \ {id}

----------------------------------------------------------------------------
(* Inputs of the direct calls *)

MaxArrayLen == 3          \* longest array given to concatenateSegments directly
MaxVariants == 3          \* longest variant list given to findHighestQuality

\* Elements of an array given to concatenateSegments: undefined, an empty
\* buffer, non-empty buffers.
ArrayElements == { Undefined, Buffer(<<>>), Buffer(<<7>>), Buffer(<<8, 9>>) }

ArrayInputs == UNION { [1..n -> ArrayElements] : n \in 0..MaxArrayLen }

\* Bandwidth and resolution of the variants offered to the selector: pixel
\* areas and bandwidths ordered alike, equal areas, a missing resolution, and
\* a high bandwidth at a small area.
VariantShapes ==
    { [bandwidth |-> 1, hasResolution |-> TRUE,  width |-> 1, height |-> 1],
      [bandwidth |-> 2, hasResolution |-> TRUE,  width |-> 2, height |-> 1],
      [bandwidth |-> 3, hasResolution |-> TRUE,  width |-> 2, height |-> 2],
      [bandwidth |-> 1, hasResolution |-> TRUE,  width |-> 1, height |-> 2],
      [bandwidth |-> 2, hasResolution |-> FALSE, width |-> 0, height |-> 0],
      [bandwidth |-> 3, hasResolution |-> TRUE,  width |-> 1, height |-> 1] }

VariantOf(shape, k) ==
    [id |-> k, bandwidth |-> shape.bandwidth, hasResolution |-> shape.hasResolution,
     width |-> shape.width, height |-> shape.height]

VariantLists ==
    UNION { { [k \in 1..n |-> VariantOf(f[k], k)] : f \in [1..n -> VariantShapes] } :
            n \in 0..MaxVariants }

\* The defaults of the options, and the retry delays given explicitly.
DEFAULT_RETRY_DELAY == 1000
DEFAULT_MAX_CONCURRENT == 5
RetryDelays == {DEFAULT_RETRY_DELAY, 3}

Preferences == {"highest", "lowest", "auto"}
BitrateLimits == {0, 1, 2}

----------------------------------------------------------------------------
(* State machine *)

NoRequest ==
    [url |-> <<>>, headers |-> NoHeaders, preferredQuality |-> "highest",
     maxBitrate |-> 0, content |-> <<>>, baseUrl |-> NoString]

NoOutcome ==
    [status |-> "none", source |-> NullSource, playlist |-> EmptyPlaylist,
     list |-> NoSegmentList]

NoParsed == [playlist |-> EmptyPlaylist, bestVariant |-> NullVariant, variantUrl |-> <<>>]

NoSelection == [variants |-> <<>>, preferredQuality |-> "highest", maxBitrate |-> 0]

Init ==
    /\ op = "none"
    /\ pc = "idle"
    /\ segments = <<>>
    /\ maxRetries = 0
    /\ retryDelay = 0
    /\ maxConcurrent = 0
    /\ onProgress = "none"
    /\ aborted = FALSE
    /\ downloadQueue = <<>>
    /\ activeDownloads = {}
    /\ task = [i \in Indices |-> NoTask]
    /\ downloadedSegments = <<>>
    /\ totalBytesDownloaded = 0
    /\ fetchLog = [i \in Indices |-> NoFetch]
    /\ progressCount = 0
    /\ lastProgress = NoProgress
    /\ outOfOrder = FALSE
    /\ selection = NoSelection
    /\ abortSeen = FALSE
    /\ result = NoResult
    /\ request = NoRequest
    /\ fetches = <<>>
    /\ parsed = NoParsed
    /\ outcome = NoOutcome
    /\ lastIndex = 0
    /\ invocation = [k \in Slots |-> NoInvocation]
    /\ startCall = [k \in Calls |-> NoStartCall]
    /\ managerActive = {}

\* controller.abort() by the client, before the call or while a segment task
\* is still running (later it changes nothing).  A coordinator that spins
\* never yields, so no abort() can run then.
Abort ==
    /\ ~aborted
    /\ \/ pc = "idle"
       \/ pc # "spin" /\ \E i \in Indices : task[i].st \in {"fetching", "sleeping"}
    /\ aborted' = TRUE
    /\ UNCHANGED <<op, pc, segments, maxRetries, retryDelay, maxConcurrent, onProgress,
                   downloadQueue, activeDownloads, task, downloadedSegments,
                   totalBytesDownloaded, fetchLog, progressCount, lastProgress,
                   outOfOrder, selection, abortSeen, result, extractorVars, managerVars>>

\* The coordinator resumes (or starts) with the given queue, map, tasks and array.
Resume(q, act, tk, fl, arr, mc) ==
    LET c == CoordinatorLoop(q, act, tk, fl, arr, mc, aborted)
    IN  /\ pc' = c.pc
        /\ downloadQueue' = c.queue
        /\ activeDownloads' = c.active
        /\ task' = c.task
        /\ fetchLog' = c.fetchLog
        /\ abortSeen' = (abortSeen \/ c.seen)
        /\ result' = c.result

\* Mutant of DownloadSegments: the check of segments.length === 0 is missing.
DownloadSegments_noEmptyCheck(segs, retries, delay, mc, cb) ==
    /\ pc = "idle"
    /\ op' = "downloadSegments"
    /\ segments' = segs
    /\ maxRetries' = retries
    /\ retryDelay' = delay
    /\ maxConcurrent' = mc
    /\ onProgress' = cb
    /\ Resume(segs, {}, task, fetchLog, <<>>, mc)
    /\ UNCHANGED <<aborted, downloadedSegments, totalBytesDownloaded, progressCount,
                   lastProgress, outOfOrder, selection, extractorVars, managerVars>>

\* downloadSegments(segs, {maxRetries, retryDelay, maxConcurrent, onProgress, signal}):
\* the call up to its first suspension.
DownloadSegments(segs, retries, delay, mc, cb) ==
    /\ pc = "idle"
    /\ op' = "downloadSegments"
    /\ segments' = segs
    /\ maxRetries' = retries
    /\ retryDelay' = delay
    /\ maxConcurrent' = mc
    /\ onProgress' = cb
    /\ IF Len(segs) = 0
         THEN /\ pc' = "failed"
              /\ result' = Thrown(ErrNoSegments)
              /\ UNCHANGED <<downloadQueue, activeDownloads, task, fetchLog, abortSeen>>
         ELSE Resume(segs, {}, task, fetchLog, <<>>, mc)
    /\ UNCHANGED <<aborted, downloadedSegments, totalBytesDownloaded, progressCount,
                   lastProgress, outOfOrder, selection, extractorVars, managerVars>>

\* Mutant of RaceRejects: the coordinator awaits promises whose rejection is
\* swallowed (Promise.allSettled-like), so no failure reaches it.
RaceRejects_never(t, handlerThrew) == FALSE

\* Mutant of RaceRejects: the coordinator races the promises derived by
\* .then(...), so a throw of the then handler reaches it.
RaceRejects_chained(t, handlerThrew) == t.st = "rejected" \/ handlerThrew

\* Promise.race(Array.from(activeDownloads.values())) races the promises
\* returned by downloadSegmentWithRetry, not the promises derived from them by
\* .then(...).catch(...): what the then handler throws rejects only the derived
\* promise and never reaches the coordinator.
RaceRejects(t, handlerThrew) == t.st = "rejected"

ErrObserver == Err("onProgress error")

\* Mutant of ReportsProgress: nothing is reported once the call has settled.
ReportsProgress_untilSettled(cb, p) == cb # "none" /\ p \notin {"done", "failed"}

\* if (onProgress) in the then handler, which never looks at the state p of
\* the downloadSegments call.
ReportsProgress(cb, p) == cb # "none"

\* Mutant of AddBytes: the segments are counted, not their bytes.
AddBytes_count(total, data) == total + 1

\* totalBytesDownloaded += data.byteLength
AddBytes(total, data) == total + Len(data)

\* The promise of segment index i settles as tk[i]: its then handler (store,
\* count bytes, delete from the map, report progress) or its catch handler
\* (delete from the map) runs, and a coordinator awaiting the race resumes.
Settle(i, tk, fl) ==
    LET t == tk[i]
        fulfilled == t.st = "fulfilled"
        arr == IF fulfilled THEN StoreSegment(downloadedSegments, i, t.value)
                            ELSE downloadedSegments
        total == IF fulfilled THEN AddBytes(totalBytesDownloaded, t.value)
                              ELSE totalBytesDownloaded
        act == activeDownloads \ {i}
        reports == fulfilled /\ ReportsProgress(onProgress, pc)
        threw == reports /\ onProgress = "throws"
        flr == IF reports THEN [fl EXCEPT ![i] = ReportedAt(@, pc)] ELSE fl
    IN  /\ downloadedSegments' = arr
        /\ totalBytesDownloaded' = total
        /\ outOfOrder' = (outOfOrder \/ (fulfilled /\ \E j \in 0..(i - 1) :
                                            task[j].st \in {"fetching", "sleeping"}
                                            \/ \E k \in 1..Len(downloadQueue) :
                                                  downloadQueue[k].index = j))
        /\ IF reports
             THEN /\ progressCount' = progressCount + 1
                  /\ lastProgress' = ProgressOf(arr, total, Len(segments))
             ELSE UNCHANGED <<progressCount, lastProgress>>
        /\ IF pc # "await"
             THEN /\ activeDownloads' = act
                  /\ task' = tk
                  /\ fetchLog' = flr
                  /\ UNCHANGED <<pc, downloadQueue, abortSeen, result>>
           ELSE IF RaceRejects(t, threw)
             THEN /\ pc' = "failed"
                  /\ result' = Thrown(IF t.st = "rejected" THEN t.error ELSE ErrObserver)
                  /\ abortSeen' = (abortSeen \/ (t.st = "rejected" /\ aborted))
                  /\ activeDownloads' = act
                  /\ task' = tk
                  /\ fetchLog' = fl
                  /\ UNCHANGED downloadQueue
           ELSE Resume(downloadQueue, act, tk, fl, arr, maxConcurrent)

\* The transport answers the request in flight for segment index i.
FetchSettles(i, ans) ==
    /\ task[i].st = "fetching"
    /\ LET k == AttemptError(ans)
           t == IF k = "none" THEN AttemptSucceeded(task[i], ans.body)
                              ELSE AttemptFailed(task[i], k, maxRetries, retryDelay, aborted)
           tk == [task EXCEPT ![i] = t]
           fl == [fetchLog EXCEPT ![i] = IF ans = TransportThrows \/ ~ans.ok \/ ans.body = <<>>
                                           THEN AnsweredFailure(@)
                                           ELSE AnsweredBody(@, ans.body)]
       IN  IF t.st = "sleeping"
             THEN /\ task' = tk
                  /\ fetchLog' = fl
                  /\ UNCHANGED <<pc, downloadQueue, activeDownloads, downloadedSegments,
                                 totalBytesDownloaded, progressCount, lastProgress,
                                 outOfOrder, abortSeen, result>>
             ELSE Settle(i, tk, fl)
    /\ UNCHANGED <<op, segments, maxRetries, retryDelay, maxConcurrent, onProgress, aborted, selection,
                   extractorVars, managerVars>>

\* The backoff timer of segment index i fires: attempt++ and the next attempt starts.
SleepElapses(i) ==
    /\ task[i].st = "sleeping"
    /\ LET t == BeginAttempt(task[i], task[i].attempt + 1, aborted)
           tk == [task EXCEPT ![i] = t]
           fl == [fetchLog EXCEPT ![i] = IF t.st = "fetching" THEN InvokedAt(@, pc) ELSE @]
       IN  IF t.st = "fetching"
             THEN /\ task' = tk
                  /\ fetchLog' = fl
                  /\ UNCHANGED <<pc, downloadQueue, activeDownloads, downloadedSegments,
                                 totalBytesDownloaded, progressCount, lastProgress,
                                 outOfOrder, abortSeen, result>>
             ELSE Settle(i, tk, fl)
    /\ UNCHANGED <<op, segments, maxRetries, retryDelay, maxConcurrent, onProgress, aborted, selection,
                   extractorVars, managerVars>>

\* A direct call of the public concatenateSegments(arr).
ConcatenateSegments(arr) ==
    /\ pc = "idle"
    /\ ~aborted
    /\ op' = "concatenateSegments"
    /\ downloadedSegments' = arr
    /\ LET c == concatenateSegments(arr)
       IN  /\ result' = c
           /\ pc' = IF c.status = "ok" THEN "done" ELSE "failed"
    /\ UNCHANGED <<segments, maxRetries, retryDelay, maxConcurrent, onProgress, aborted,
                   downloadQueue, activeDownloads, task, totalBytesDownloaded,
                   fetchLog, progressCount, lastProgress, outOfOrder, selection,
                   abortSeen, extractorVars, managerVars>>

\* new VideoExtractor({preferredQuality, maxBitrate}).findHighestQuality(variants)
FindHighestQuality(variants, preferredQuality, maxBitrate) ==
    /\ pc = "idle"
    /\ ~aborted
    /\ op' = "findHighestQuality"
    /\ selection' = [variants |-> variants, preferredQuality |-> preferredQuality,
                     maxBitrate |-> maxBitrate]
    /\ result' = Returned(findHighestQuality(variants, preferredQuality, maxBitrate))
    /\ pc' = "done"
    /\ UNCHANGED <<segments, maxRetries, retryDelay, maxConcurrent, onProgress, aborted,
                   downloadQueue, activeDownloads, task, downloadedSegments,
                   totalBytesDownloaded, fetchLog, progressCount, lastProgress,
                   outOfOrder, abortSeen, extractorVars, managerVars>>

\* The client calls one public operation, with arguments from the input sets.
CallConcatenateSegments ==
    /\ pc = "idle"
    /\ \E arr \in ArrayInputs : ConcatenateSegments(arr)

CallFindHighestQuality ==
    /\ pc = "idle"
    /\ \E variants \in VariantLists, p \in Preferences, b \in BitrateLimits :
          FindHighestQuality(variants, p, b)

CallDownloadSegments ==
    /\ pc = "idle"
    /\ \E idxs \in SegmentLists, retries \in 0..MaxRetriesBound,
          mc \in 0..MaxConcurrentBound, cb \in {"none", "ok", "throws"} :
          DownloadSegments(ToSegments(idxs), retries, DEFAULT_RETRY_DELAY, mc, cb)

Next ==
    \/ Abort
    \/ CallDownloadSegments
    \/ CallConcatenateSegments
    \/ CallFindHighestQuality
    \/ \E i \in Indices : \E ans \in Answers(i) : FetchSettles(i, ans)
    \/ \E i \in Indices : SleepElapses(i)

Spec == Init /\ [][Next]_vars

----------------------------------------------------------------------------
(* State machine of one segment's retry loop *)

MaxBackoffRetries == 3    \* options.maxRetries of a single-segment download

\* downloadSegments([segment], {maxRetries, retryDelay, signal}): a list of
\* one segment, maxConcurrent and onProgress left out.
CallDownloadOneSegment ==
    /\ pc = "idle"
    /\ \E i \in Indices, retries \in 0..MaxBackoffRetries, delay \in RetryDelays :
          DownloadSegments(ToSegments(<<i>>), retries, delay, DEFAULT_MAX_CONCURRENT, "none")

RetryNext ==
    \/ Abort
    \/ CallDownloadOneSegment
    \/ \E i \in Indices : \E ans \in Answers(i) : FetchSettles(i, ans)
    \/ \E i \in Indices : SleepElapses(i)

RetrySpec == Init /\ [][RetryNext]_vars

----------------------------------------------------------------------------
(* State machine of a download in a responsive environment *)

\* downloadSegments(segments, {maxRetries, maxConcurrent, onProgress, signal})
\* with an observer that is absent or throws.
CallDownloadResponsive ==
    /\ pc = "idle"
    /\ \E idxs \in SegmentLists, retries \in 0..MaxRetriesBound,
          mc \in 0..MaxConcurrentBound, cb \in {"none", "throws"} :
          DownloadSegments(ToSegments(idxs), retries, DEFAULT_RETRY_DELAY, mc, cb)

\* The answers of the transport, with one body per segment.
SettledAnswers(i) ==
    {TransportThrows, Response(FALSE, <<>>), Response(TRUE, <<>>), Response(TRUE, <<i>>)}

TransportSettles(i) == \E ans \in SettledAnswers(i) : FetchSettles(i, ans)

ResponsiveNext ==
    \/ Abort
    \/ CallDownloadResponsive
    \/ \E i \in Indices : TransportSettles(i)
    \/ \E i \in Indices : SleepElapses(i)

\* Every fetch() the transport was given is answered at some time, and every
\* timer set by sleep(delay) fires.
Fairness ==
    \A i \in Indices : WF_vars(TransportSettles(i)) /\ WF_vars(SleepElapses(i))

FairSpec == Init /\ [][ResponsiveNext]_vars /\ Fairness

----------------------------------------------------------------------------
(* Inputs of the extractor and the parsers *)

MaxLines == 4             \* longest playlist text given to a parser directly
MaxFetchedVariants == 2   \* most stream-info blocks in a fetched master playlist

\* URL lines of a playlist: absolute, rooted, relative.
AbsoluteLine == <<"https://", "cdn", "/", "s.ts">>
RootedLine == <<"/", "x", "/", "s.ts">>
RelativeLine == <<"s.ts">>
UrlLines == { UrlLine(AbsoluteLine), UrlLine(RootedLine), UrlLine(RelativeLine) }

\* Stream-info directives: every attribute but PROGRAM-ID; neither BANDWIDTH
\* nor CODECS; no RESOLUTION; no FRAME-RATE.
FullStreamInf ==
    StreamInfLine([NoAttrs EXCEPT !["BANDWIDTH"] = Attr(<<3>>),
                                  !["RESOLUTION"] = Attr(<<2, 2>>),
                                  !["CODECS"] = Attr(<<1>>),
                                  !["FRAME-RATE"] = Attr(<<30>>)])
LowStreamInf ==
    StreamInfLine([NoAttrs EXCEPT !["RESOLUTION"] = Attr(<<1, 1>>),
                                  !["FRAME-RATE"] = Attr(<<25>>)])
NoResolutionStreamInf ==
    StreamInfLine([NoAttrs EXCEPT !["BANDWIDTH"] = Attr(<<2>>),
                                  !["FRAME-RATE"] = Attr(<<30>>)])
NoFrameRateStreamInf ==
    StreamInfLine([NoAttrs EXCEPT !["BANDWIDTH"] = Attr(<<1>>),
                                  !["RESOLUTION"] = Attr(<<1, 2>>)])

MasterLines ==
    { FullStreamInf, LowStreamInf, NoResolutionStreamInf, NoFrameRateStreamInf,
      Line("comment") } \cup UrlLines

MediaLines ==
    { ExtInfLine(Number(10)), ExtInfLine(Number(5)), ExtInfLine(EmptyNumeral),
      Line("discontinuity"), Line("comment") } \cup UrlLines

TextsOver(lines, n) == UNION { [1..k -> lines] : k \in 0..n }

MediaTexts == TextsOver(MediaLines, MaxLines)
PlaylistTexts == TextsOver(MasterLines, MaxLines) \cup MediaTexts

\* The baseUrl argument: left out, a playlist URL with a directory, a URL
\* without a path, a URL whose query holds a '/'.
PlainBase == <<"https://", "h", "/", "v", "/", "p", ".m3u8">>
BaseUrls ==
    { NoString, Given(PlainBase), Given(<<"https://", "h">>),
      Given(<<"https://", "h", "/", "p", ".m3u8", "?", "t", "/", "z">>) }

\* URLs given to getVideoSource.
SourceUrls ==
    { <<"https://", "h", "/", "v", ".mp4">>,
      PlainBase,
      <<"https://", "h", "/", "p", ".M3U8">>,
      <<"p", ".m3u8">>,
      <<"https://", "h", "/", "v", ".mp4", "/", "p", ".m3u8">>,
      <<"https://", "h", "/", "m", ".mpd">>,
      <<"https://", "h", "/", "page">> }

HeaderMaps ==
    { NoHeaders, Headers({}), Headers({ <<"Authorization", "Bearer t">> }) }

\* Texts the transport may deliver for a playlist: master playlists of up to
\* MaxFetchedVariants stream-info blocks, a stream-info without URL line, and
\* a media playlist.
FetchedBlocks ==
    { <<d, u>> : d \in {FullStreamInf, LowStreamInf, NoResolutionStreamInf},
                 u \in {UrlLine(AbsoluteLine), UrlLine(RelativeLine)} }

RECURSIVE BlockTexts(_)
BlockTexts(n) ==
    IF n = 0 THEN { <<>> }
    ELSE BlockTexts(n - 1)
           \cup { t \o b : t \in BlockTexts(n - 1), b \in FetchedBlocks }

FetchedTexts ==
    BlockTexts(MaxFetchedVariants)
      \cup { <<FullStreamInf>>, <<ExtInfLine(Number(10)), UrlLine(RelativeLine)>> }

PlaylistAnswers ==
    { PlaylistThrows, PlaylistStatus } \cup { PlaylistText(t) : t \in FetchedTexts }

----------------------------------------------------------------------------
(* State machine of the extractor and the parsers *)

\* extractor.parseM3U8(content, baseUrl)
ParseM3U8(content, baseUrl) ==
    /\ pc = "idle"
    /\ op' = "parseM3U8"
    /\ request' = [NoRequest EXCEPT !.content = content, !.baseUrl = baseUrl]
    /\ LET p == parseM3U8(content, baseUrl)
       IN  /\ outcome' = [NoOutcome EXCEPT
                             !.status = IF p.threw THEN "threw" ELSE "returned",
                             !.playlist = p]
           /\ pc' = IF p.threw THEN "failed" ELSE "done"
    /\ UNCHANGED <<fetches, parsed, downloaderVars, managerVars>>

\* SegmentDownloader.parseSegmentsFromM3U8(m3u8Content, baseUrl)
ParseSegmentsFromM3U8(m3u8Content, baseUrl) ==
    /\ pc = "idle"
    /\ op' = "parseSegmentsFromM3U8"
    /\ request' = [NoRequest EXCEPT !.content = m3u8Content, !.baseUrl = baseUrl]
    /\ LET l == parseSegmentsFromM3U8(m3u8Content, baseUrl)
       IN  /\ outcome' = [NoOutcome EXCEPT
                             !.status = IF l.threw THEN "threw" ELSE "returned",
                             !.list = l]
           /\ pc' = IF l.threw THEN "failed" ELSE "done"
    /\ UNCHANGED <<fetches, parsed, downloaderVars, managerVars>>

\* new VideoExtractor({preferredQuality, maxBitrate}).getVideoSource(url, headers):
\* the call up to its first suspension or its return.
GetVideoSource(url, headers, preferredQuality, maxBitrate) ==
    /\ pc = "idle"
    /\ op' = "getVideoSource"
    /\ request' = [NoRequest EXCEPT !.url = url, !.headers = headers,
                                    !.preferredQuality = preferredQuality,
                                    !.maxBitrate = maxBitrate]
    /\ IF isDirectVideo(url)
         THEN /\ outcome' = [NoOutcome EXCEPT !.status = "returned",
                                !.source = Source(url, "direct", NoQuality, headers)]
              /\ pc' = "done"
              /\ UNCHANGED fetches
       ELSE IF isM3U8(url)
         THEN /\ fetches' = <<Fetch("playlist", url, PlaylistFetchInit(headers))>>
              /\ pc' = "fetchPlaylist"
              /\ UNCHANGED outcome
       ELSE \* a DASH manifest, which is only logged, or any other URL
            /\ outcome' = [NoOutcome EXCEPT !.status = "returned"]
            /\ pc' = "done"
            /\ UNCHANGED fetches
    /\ UNCHANGED <<parsed, downloaderVars, managerVars>>

\* The transport answers the fetch of the given playlist: getVideoSource
\* runs on to its return or to the fetch of the variant playlist.
PlaylistFetchSettles(ans) ==
    /\ pc = "fetchPlaylist"
    /\ LET url == request.url
           answered == [fetches EXCEPT ![1].answer = ans.answer]
           playlist == fetchAndParseM3U8(ans, url)
           bestVariant == findBestQuality(playlist.playlist.variants)
           variantUrl == resolveUrl(bestVariant.url, Given(url))
       IN  IF playlist.isNull
             THEN /\ outcome' = [NoOutcome EXCEPT !.status = "returned"]
                  /\ pc' = "done"
                  /\ fetches' = answered
                  /\ UNCHANGED parsed
           ELSE IF playlist.playlist.isMaster /\ bestVariant.id # 0
             THEN IF variantUrl.threw
                    THEN /\ outcome' = [NoOutcome EXCEPT !.status = "returned"]
                         /\ pc' = "done"
                         /\ fetches' = answered
                         /\ parsed' = [playlist |-> playlist.playlist,
                                       bestVariant |-> bestVariant, variantUrl |-> <<>>]
                    ELSE /\ fetches' = Append(answered,
                                          Fetch("playlist", variantUrl.s,
                                                PlaylistFetchInit(request.headers)))
                         /\ pc' = "fetchVariant"
                         /\ parsed' = [playlist |-> playlist.playlist,
                                       bestVariant |-> bestVariant,
                                       variantUrl |-> variantUrl.s]
                         /\ UNCHANGED outcome
           ELSE /\ outcome' = [NoOutcome EXCEPT !.status = "returned",
                                  !.source = Source(url, "m3u8", NoQuality, request.headers)]
                /\ pc' = "done"
                /\ fetches' = answered
                /\ parsed' = [playlist |-> playlist.playlist,
                              bestVariant |-> NullVariant, variantUrl |-> <<>>]
    /\ UNCHANGED <<op, request, downloaderVars, managerVars>>

\* The transport answers the fetch of the variant playlist: its result,
\* null included, is dropped and the source of the variant is returned.
VariantFetchSettles(ans) ==
    /\ pc = "fetchVariant"
    /\ fetches' = [fetches EXCEPT ![2].answer = ans.answer]
    /\ outcome' = [NoOutcome EXCEPT !.status = "returned",
                      !.source = Source(parsed.variantUrl, "m3u8",
                                        variantToQuality(parsed.bestVariant),
                                        request.headers)]
    /\ pc' = "done"
    /\ UNCHANGED <<op, request, parsed, downloaderVars, managerVars>>

\* A segment of the returned m3u8 source is fetched by
\* downloadSegmentWithRetry: what its fetch() is given.  The retries and the
\* coordination of the download are the subject of Spec.
SegmentFetch ==
    /\ op = "getVideoSource"
    /\ pc = "done"
    /\ ~outcome.source.isNull
    /\ outcome.source.type = "m3u8"
    /\ \A k \in 1..Len(fetches) : fetches[k].kind # "segment"
    /\ fetches' = Append(fetches, Fetch("segment", RelativeLine, SegmentFetchInit))
    /\ UNCHANGED <<op, pc, request, parsed, outcome, downloaderVars, managerVars>>

CallParseM3U8 ==
    /\ pc = "idle"
    /\ \E content \in PlaylistTexts, baseUrl \in BaseUrls : ParseM3U8(content, baseUrl)

CallParseSegmentsFromM3U8 ==
    /\ pc = "idle"
    /\ \E content \in MediaTexts, baseUrl \in BaseUrls :
          ParseSegmentsFromM3U8(content, baseUrl)

CallGetVideoSource ==
    /\ pc = "idle"
    /\ \E url \in SourceUrls, headers \in HeaderMaps, p \in Preferences,
          b \in BitrateLimits : GetVideoSource(url, headers, p, b)

ExtractorNext ==
    \/ CallParseM3U8
    \/ CallParseSegmentsFromM3U8
    \/ CallGetVideoSource
    \/ \E ans \in PlaylistAnswers : PlaylistFetchSettles(ans)
    \/ \E ans \in PlaylistAnswers : VariantFetchSettles(ans)
    \/ SegmentFetch

ExtractorSpec == Init /\ [][ExtractorNext]_vars

----------------------------------------------------------------------------
(* State machine of the parsers on media playlists with markers *)

\* Lines of a media playlist: segment durations of 10 and of 0 seconds and
\* one without numeral, a comment, a URL, the end-of-list directive and the
\* playlist types VOD and EVENT.
MarkerLines ==
    { ExtInfLine(Number(10)), ExtInfLine(Number(0)), ExtInfLine(EmptyNumeral),
      Line("comment"), UrlLine(RelativeLine), Line("endlist"),
      PlaylistTypeLine("VOD"), PlaylistTypeLine("EVENT") }
MarkerTexts == TextsOver(MarkerLines, MaxLines)
MarkerBases == { NoString, Given(PlainBase) }

CallParseMarkers ==
    /\ pc = "idle"
    /\ \E content \in MarkerTexts, baseUrl \in MarkerBases : ParseM3U8(content, baseUrl)

CallParseMarkerSegments ==
    /\ pc = "idle"
    /\ \E content \in MarkerTexts, baseUrl \in MarkerBases :
          ParseSegmentsFromM3U8(content, baseUrl)

MarkerNext ==
    \/ CallParseMarkers
    \/ CallParseMarkerSegments

MarkerSpec == Init /\ [][MarkerNext]_vars

----------------------------------------------------------------------------
(* State machine of the download managers *)

\* Filenames a caller may supply: none, the empty string, valid names, names
\* with a forbidden character at different places, a reserved name, a name
\* of more than maxFilenameLength characters.
Filenames ==
    {NoString, Given(<<>>), Given(<<"a", ".", "mp4">>), Given(<<"<", "a", ".", "mp4">>),
     Given(<<"a", "b", "/">>), Given(<<"a", ":", "b", "c", "d", "e", "f">>),
     Given(<<"con", ".", "mp4">>), Given(<<"long", ".", "mp4">>)}

Usernames == {NoString, Given(<<"a", "<", "b">>), Given(<<"CON">>)}

\* Options of a direct call: platform, username and timestamp vary where
\* they are read, which is when no filename is supplied.
DirectOptions ==
    { [NoOptions EXCEPT !.filename = f, !.url = u, !.blob = b] :
        f \in Filenames, u \in BOOLEAN, b \in BOOLEAN }
    \cup
    { [filename |-> f, url |-> u, blob |-> FALSE, platform |-> p, username |-> n,
       timestamp |-> t] :
        f \in {NoString, Given(<<>>)}, u \in BOOLEAN,
        p \in {NoString, Given(<<"twitter">>)}, n \in Usernames, t \in {"time", "NaN"} }

\* Videos without source, with a url, and with a blob.
Videos ==
    { [NoVideo EXCEPT !.id = i, !.url = u, !.blob = b] :
        i \in VideoIds, u \in BOOLEAN, b \in {FALSE} }
    \cup { [NoVideo EXCEPT !.id = i, !.blob = TRUE] : i \in VideoIds }

RequestFilenames == {NoString, Given(<<"a", "b", "/">>)}

CallbackKinds == {"none", "onProgressThrows", "onCompleteThrows", "onErrorThrows"}

\* What is kept of the initiateDownload invocation of a settled
\* startDownload call: the host calls it made and its result.
Resolved(d) ==
    [NoInvocation EXCEPT !.pc = "done", !.downloads = d.downloads,
                         !.searches = d.searches, !.result = d.result]

\* An initiateDownload invocation moved on to d.  When it is done and a
\* startDownload call awaits it, that call resumes in the same task: the
\* result branch, the catch block and the finally block.
Continue(k, d) ==
    IF k \in Calls /\ d.pc = "done"
      THEN /\ invocation' = [invocation EXCEPT ![k] = Resolved(d)]
           /\ startCall' = [startCall EXCEPT ![k] = Resumed(@, d.result)]
           /\ managerActive' = Cleanup(managerActive, startCall[k].video.id)
      ELSE /\ invocation' = [invocation EXCEPT ![k] = d]
           /\ UNCHANGED <<startCall, managerActive>>

\* downloadManager.initiateDownload(options) by a client, up to its first
\* await or, when it throws before, to its resolution.
InitiateDownload(options, api) ==
    /\ invocation[0].pc \in {"none", "done"}
    /\ op' = "initiateDownload"
    /\ invocation' = [invocation EXCEPT ![0] = Initiated(options, api, lastIndex)]
    /\ lastIndex' = InitiateSync(options, api, lastIndex).lastIndex
    /\ UNCHANGED <<pc, startCall, managerActive, downloaderVars, extractorVars>>

CallInitiateDownload ==
    \E options \in DirectOptions, api \in BOOLEAN : InitiateDownload(options, api)

\* The callback of chrome.downloads.download runs.
DownloadCallback(k, ans) ==
    /\ invocation[k].pc = "download"
    /\ Continue(k, AfterDownloadCallback(invocation[k], ans))
    /\ UNCHANGED <<op, pc, lastIndex, downloaderVars, extractorVars>>

\* The callback of chrome.downloads.search runs; a download is found in
\* progress at most MaxPolls times.
SearchCallback(k, ans) ==
    /\ invocation[k].pc = "search"
    /\ ans = "in_progress" => invocation[k].searches <= MaxPolls
    /\ Continue(k, AfterSearchCallback(invocation[k], ans))
    /\ UNCHANGED <<op, pc, lastIndex, downloaderVars, extractorVars>>

\* The 500 ms timer of monitorDownload fires and searches again.
PollTimer(k) ==
    /\ invocation[k].pc = "timer"
    /\ Continue(k, AfterPollTimer(invocation[k]))
    /\ UNCHANGED <<op, pc, lastIndex, downloaderVars, extractorVars>>

\* progressManager.startDownload(request) by a client, up to its first
\* await: the duplicate check, activeDownloads.set, the two notifications.
\* A throwing onProgress takes the call through catch and finally at once.
\* The call takes the first place that holds no unsettled call.
StartDownload(k, video, filename, callbacks) ==
    LET c == [NoStartCall EXCEPT !.video = video, !.filename = filename,
                                 !.callbacks = callbacks]
    IN  /\ startCall[k].pc \in {"none", "skipped", "done"}
        /\ \A j \in 1..(k - 1) : startCall[j].pc \in {"preparing", "downloading"}
        /\ op' = "startDownload"
        /\ invocation' = [invocation EXCEPT ![k] = NoInvocation]
        /\ IF IsActive(managerActive, video.id)
             THEN /\ startCall' = [startCall EXCEPT ![k] = [Closed(c) EXCEPT !.pc = "skipped"]]
                  /\ UNCHANGED managerActive
           ELSE IF callbacks = "onProgressThrows"
             THEN /\ startCall' = [startCall EXCEPT ![k] = Errored(c, "onProgress threw")]
                  /\ managerActive' = Cleanup(managerActive \cup {video.id}, video.id)
           ELSE /\ startCall' = [startCall EXCEPT ![k] = [c EXCEPT !.pc = "preparing"]]
                /\ managerActive' = managerActive \cup {video.id}
        /\ UNCHANGED <<pc, lastIndex, downloaderVars, extractorVars>>

CallStartDownload ==
    \E k \in Calls, video \in Videos, filename \in RequestFilenames,
       callbacks \in CallbackKinds :
        StartDownload(k, video, filename, callbacks)

\* The 500 ms timer of simulatePreparation fires: startDownload builds the
\* options, throws for a video without source, or calls initiateDownload,
\* which runs to its first await or resolves at once.
PreparationElapses(k, api) ==
    LET c == startCall[k]
        d == Initiated(DownloadOptionsOf(c), api, lastIndex)
    IN  /\ c.pc = "preparing"
        /\ IF ~c.video.blob /\ ~c.video.url
             THEN /\ startCall' = [startCall EXCEPT ![k] = Errored(c, "No video source available")]
                  /\ managerActive' = Cleanup(managerActive, c.video.id)
                  /\ UNCHANGED <<invocation, lastIndex>>
           ELSE /\ lastIndex' = InitiateSync(DownloadOptionsOf(c), api, lastIndex).lastIndex
                /\ invocation' = [invocation EXCEPT ![k] = IF d.pc = "done" THEN Resolved(d) ELSE d]
                /\ IF d.pc = "done"
                     THEN /\ startCall' = [startCall EXCEPT ![k] = Resumed(c, d.result)]
                          /\ managerActive' = Cleanup(managerActive, c.video.id)
                     ELSE /\ startCall' = [startCall EXCEPT ![k].pc = "downloading"]
                          /\ UNCHANGED managerActive
        /\ UNCHANGED <<op, pc, downloaderVars, extractorVars>>

\* The download manager under a client that calls initiateDownload again
\* and again, each call after the one before has settled.
ManagerNext ==
    \/ CallInitiateDownload
    \/ \E ans \in DownloadAnswers : DownloadCallback(0, ans)
    \/ \E ans \in SearchAnswers : SearchCallback(0, ans)
    \/ PollTimer(0)

ManagerSpec == Init /\ [][ManagerNext]_vars

\* The progress manager under clients that call startDownload at any time.
ProgressNext ==
    \/ CallStartDownload
    \/ \E k \in Calls, api \in BOOLEAN : PreparationElapses(k, api)
    \/ \E k \in Calls, ans \in DownloadAnswers : DownloadCallback(k, ans)
    \/ \E k \in Calls, ans \in SearchAnswers : SearchCallback(k, ans)
    \/ \E k \in Calls : PollTimer(k)

ProgressSpec == Init /\ [][ProgressNext]_vars

\* cancelDownload(videoId): without an active entry it returns false; with
\* one it deletes the entry and returns true.  The startDownload calls in
\* progress for the id keep running; they are marked as cancelled.
CancelDownload(videoId) ==
    /\ op' = "cancelDownload"
    /\ IF IsActive(managerActive, videoId)
         THEN /\ managerActive' = managerActive \ {videoId}
              /\ startCall' = [k \in Calls |->
                    IF startCall[k].video.id = videoId
                         /\ startCall[k].pc \in {"preparing", "downloading"}
                      THEN [startCall[k] EXCEPT !.outcome = "cancelled"]
                      ELSE startCall[k]]
         ELSE UNCHANGED <<managerActive, startCall>>
    /\ UNCHANGED <<pc, lastIndex, invocation, downloaderVars, extractorVars>>

\* The progress manager under clients that call startDownload and
\* cancelDownload at any time.
\* startDownload({video}) without filename and without callbacks.
CallStartDownloadPlain ==
    \E k \in Calls, video \in Videos : StartDownload(k, video, NoString, "none")

CancelNext ==
    \/ CallStartDownloadPlain
    \/ \E id \in VideoIds : CancelDownload(id)
    \/ \E k \in Calls, api \in BOOLEAN : PreparationElapses(k, api)
    \/ \E k \in Calls, ans \in DownloadAnswers : DownloadCallback(k, ans)
    \/ \E k \in Calls, ans \in SearchAnswers : SearchCallback(k, ans)
    \/ \E k \in Calls : PollTimer(k)

CancelSpec == Init /\ [][CancelNext]_vars

----------------------------------------------------------------------------
(* Notions used by the properties *)

IsDownload == op = "downloadSegments"

\* The indices of the input segments.
InputIndices == { segments[k].index : k \in 1..Len(segments) }

\* The members of a finite set of integers in ascending order.
RECURSIVE Ascending(_)
Ascending(S) ==
    IF S = {} THEN <<>>
    ELSE LET m == CHOOSE x \in S : \A y \in S : x <= y
         IN  <<m>> \o Ascending(S \ {m})

\* The bodies the transport delivered, joined in ascending index order.
BytesByIndex ==
    LET order == Ascending(InputIndices)
    IN  Flatten([k \in 1..Len(order) |-> fetchLog[order[k]].body])

\* Segments whose fetch-with-retry has started and has not settled.
InFlight == { i \in Indices : task[i].st \in {"fetching", "sleeping"} }

Exhausted(i) ==
    task[i].st = "rejected" /\ task[i].error.kind = "Failed to download segment after retries"

\* The failure an answer of the transport amounts to.
FailureOf(ans) ==
    CASE ans.threw -> "Transport error"
      [] ~ans.threw /\ ~ans.ok -> "HTTP error"
      [] OTHER -> "Empty segment received"

----------------------------------------------------------------------------
(* Properties of SegmentDownloader and of the selector *)

\* C1: whenever downloadSegments returns a result, its byte stream is the
\* concatenation of the bodies fetched for the input segments in ascending
\* index order, whatever the order of the list and of the completions.
C1_AssemblyByIndex ==
    (IsDownload /\ pc = "done") =>
        /\ result.status = "ok"
        /\ result.blob = BytesByIndex

\* A download returned after a segment had been stored ahead of one with a
\* smaller index.
C1_Witness ==
    /\ IsDownload
    /\ pc = "done"
    /\ outOfOrder
    /\ Len(segments) >= 2

\* C2: with maxConcurrent >= 1, at most maxConcurrent segments are in flight
\* (fetching or waiting in a backoff delay) at any time.
C2_InFlightCeiling ==
    (IsDownload /\ maxConcurrent >= 1) => Cardinality(InFlight) <= maxConcurrent

\* The window is full while segments still wait in the queue.
C2_Witness ==
    /\ IsDownload
    /\ maxConcurrent >= 1
    /\ Cardinality(InFlight) = maxConcurrent
    /\ downloadQueue # <<>>
    /\ \E i \in InFlight : task[i].st = "sleeping"

\* C3: once a segment has exhausted its retries the download has failed, with
\* the error of a segment that exhausted its retries, and it never returns;
\* a returned result holds the bytes of every input segment.
C3_TerminalFailureAborts ==
    IsDownload =>
        /\ (\E i \in Indices : Exhausted(i)) =>
              /\ pc = "failed"
              /\ result.status = "error"
              /\ \E i \in Indices : Exhausted(i) /\ result.error = task[i].error
        /\ pc = "done" =>
              /\ \A i \in InputIndices :
                    /\ task[i].st = "fulfilled"
                    /\ downloadedSegments[i + 1] = Buffer(fetchLog[i].body)
              /\ result.size = SumLen([k \in 1..Len(segments) |->
                                          fetchLog[segments[k].index].body])

\* One segment exhausted its retries after another had been stored.
C3_Witness ==
    /\ IsDownload
    /\ pc = "failed"
    /\ \E i, j \in Indices : Exhausted(i) /\ task[j].st = "fulfilled"

\* C4: without cancellation, a segment whose first k answers fail (k <=
\* maxRetries) and whose next answer succeeds returns that body after exactly
\* k + 1 transport invocations; a segment whose maxRetries + 1 answers all
\* fail is rejected after exactly maxRetries + 1 invocations with the error
\* naming maxRetries retries and the last failure; the transport is never
\* invoked more than maxRetries + 1 times for a segment.
C4_RetryContract ==
    /\ [](IsDownload =>
            \A i \in Indices :
                /\ fetchLog[i].calls <= maxRetries + 1
                /\ (~aborted /\ task[i].st = "fulfilled") =>
                      /\ fetchLog[i].failures <= maxRetries
                      /\ fetchLog[i].calls = fetchLog[i].failures + 1
                      /\ task[i].value = fetchLog[i].body
                      /\ Len(task[i].value) > 0
                /\ (~aborted /\ task[i].st = "rejected") =>
                      /\ fetchLog[i].failures = maxRetries + 1
                      /\ fetchLog[i].calls = maxRetries + 1
                      /\ task[i].error.kind = "Failed to download segment after retries"
                      /\ task[i].error.retries = maxRetries)
    /\ [][\A i \in Indices : \A ans \in Answers(i) :
            (~aborted /\ FetchSettles(i, ans) /\ task'[i].st = "rejected") =>
                task'[i].error.last = FailureOf(ans)]_vars

\* Without cancellation one segment was fetched on its last permitted attempt
\* and another exhausted its retries.
C4_Witness ==
    /\ IsDownload
    /\ ~aborted
    /\ maxRetries >= 1
    /\ \E i, j \in Indices :
          /\ task[i].st = "fulfilled"
          /\ fetchLog[i].failures = maxRetries
          /\ Exhausted(j)

\* C5: downloadSegments called on a non-empty list with cancellation already
\* requested fails with 'Download aborted', has invoked the transport zero
\* times and has started no segment task.
C5_AbortedBeforeCall ==
    [][(aborted /\ pc = "idle" /\ op' = "downloadSegments" /\ segments' # <<>>) =>
          /\ pc' = "failed"
          /\ result'.status = "error"
          /\ result'.error.kind = "Download aborted"
          /\ \A i \in Indices : fetchLog'[i].calls = 0 /\ task'[i].st = "none"]_vars

\* A call on a non-empty list that failed as aborted with no task started.
C5_Witness ==
    /\ IsDownload
    /\ segments # <<>>
    /\ maxConcurrent >= 1
    /\ aborted
    /\ pc = "failed"
    /\ result.error.kind = "Download aborted"
    /\ \A i \in Indices : task[i].st = "none" /\ fetchLog[i].calls = 0

\* C6: whenever a read of the signal saw cancellation while the download was
\* unsettled, the download has failed with the 'Download aborted' error.
C6_ObservedAbortFailsAborted ==
    (IsDownload /\ abortSeen) =>
        /\ pc = "failed"
        /\ result.error.kind = "Download aborted"

\* C7: once cancellation has been requested, no step invokes the transport
\* for any segment: no admission, no further attempt, none after a backoff.
C7_NoFetchAfterAbort ==
    [][aborted => \A i \in Indices : fetchLog'[i].calls = fetchLog[i].calls]_vars

\* Cancellation arrived while a segment waited in its backoff delay and while
\* another still waited in the queue: the first was rejected as aborted with
\* retries left, the second was never admitted.
C7_Witness ==
    /\ IsDownload
    /\ aborted
    /\ downloadQueue # <<>>
    /\ \A k \in 1..Len(downloadQueue) : fetchLog[downloadQueue[k].index].calls = 0
    /\ \E i \in Indices :
          /\ task[i].st = "rejected"
          /\ task[i].error.kind = "Download aborted"
          /\ fetchLog[i].calls <= maxRetries

\* C8: downloadSegments([]) fails with 'No segments provided for download'
\* before any transport invocation, concatenateSegments([]) fails with 'No
\* segments to concatenate', and selection on an empty list returns null.
C8_EmptyInputs ==
    /\ (IsDownload /\ segments = <<>>) =>
          /\ pc = "failed"
          /\ result.status = "error"
          /\ result.error.kind = "No segments provided for download"
          /\ \A i \in Indices : fetchLog[i].calls = 0 /\ task[i].st = "none"
    /\ (op = "concatenateSegments" /\ downloadedSegments = <<>>) =>
          /\ pc = "failed"
          /\ result.status = "error"
          /\ result.error.kind = "No segments to concatenate"
    /\ (op = "findHighestQuality" /\ selection.variants = <<>>) =>
          /\ result.status = "ok"
          /\ result.variant.id = 0

\* downloadSegments([]) was called with options that would admit segments.
C8_Witness ==
    /\ IsDownload
    /\ segments = <<>>
    /\ maxConcurrent >= 1
    /\ pc = "failed"

\* C9: onProgress is invoked once per stored segment; the k-th invocation
\* reports currentSegment = k, totalSegments = N and percentage =
\* round(k / N * 100), so the count rises by one at each invocation, and a
\* download that returned last reported N and 100.
C9_ProgressReports ==
    /\ [](IsDownload =>
            LET stored == Cardinality({ i \in Indices : task[i].st = "fulfilled" })
                n == Len(segments)
                p == lastProgress.percentage
            IN  /\ progressCount = IF onProgress = "none" THEN 0 ELSE stored
                /\ progressCount >= 1 =>
                      /\ lastProgress.currentSegment = progressCount
                      /\ lastProgress.totalSegments = n
                      /\ 2 * n * p - n <= 200 * progressCount
                      /\ 200 * progressCount < 2 * n * p + n
                /\ (pc = "done" /\ onProgress # "none") =>
                      /\ lastProgress.currentSegment = n
                      /\ p = 100)
    /\ [][progressCount' # progressCount =>
            /\ progressCount' = progressCount + 1
            /\ lastProgress'.currentSegment = lastProgress.currentSegment + 1]_vars

\* A download of two segments, the second index stored first, returned after
\* two progress reports.
C9_Witness ==
    /\ IsDownload
    /\ onProgress = "ok"
    /\ pc = "done"
    /\ outOfOrder
    /\ progressCount = 2
    /\ lastProgress.percentage = 100

\* C10: a throwing onProgress observer never fails the download: a failure
\* is never the observer's error and always has a cause of its own (empty
\* list, cancellation seen, a rejected segment), and when every answer of the
\* transport succeeded and no cancellation was seen the settled download has
\* returned the complete result.
C10_ObserverCannotAbort ==
    (IsDownload /\ onProgress = "throws") =>
        /\ result.error.kind # "onProgress error"
        /\ pc = "failed" =>
              \/ segments = <<>>
              \/ abortSeen
              \/ \E i \in Indices : task[i].st = "rejected"
        /\ (pc \in {"done", "failed"} /\ segments # <<>> /\ ~abortSeen
              /\ \A i \in Indices : fetchLog[i].failures = 0) =>
              /\ pc = "done"
              /\ result.blob = BytesByIndex
              /\ \A i \in InputIndices : task[i].st = "fulfilled"

\* The observer threw at each of two reports and the download returned.
C10_Witness ==
    /\ IsDownload
    /\ onProgress = "throws"
    /\ progressCount = 2
    /\ pc = "done"
    /\ result.status = "ok"

----------------------------------------------------------------------------
(* Properties of the selector on consistently ordered variants *)

\* Every variant has a resolution, pixel areas and bandwidths are pairwise
\* distinct, and a larger area goes with a larger bandwidth.
ConsistentVariants(vs) ==
    /\ \A k \in 1..Len(vs) : vs[k].hasResolution
    /\ \A a, b \in 1..Len(vs) :
          a # b => /\ Pixels(vs[a]) # Pixels(vs[b])
                   /\ vs[a].bandwidth # vs[b].bandwidth
                   /\ (Pixels(vs[a]) < Pixels(vs[b])) <=> (vs[a].bandwidth < vs[b].bandwidth)

\* C20: on a non-empty list of variants that all have a resolution, with
\* distinct and consistently ordered pixel areas and bandwidths and no
\* maxBitrate, preference highest returns the variant of largest pixel area,
\* lowest the variant of smallest pixel area, and auto the element at index
\* floor(n/2) of the ascending bandwidth order (the one with exactly
\* floor(n/2) variants of smaller bandwidth).
C20_ConsistentSelection ==
    LET vs == selection.variants
        n == Len(vs)
        r == result.variant
    IN  (op = "findHighestQuality" /\ n > 0 /\ ConsistentVariants(vs)
            /\ selection.maxBitrate = 0) =>
          /\ result.status = "ok"
          /\ \E k \in 1..n : vs[k] = r
          /\ selection.preferredQuality = "highest" =>
                \A k \in 1..n : Pixels(vs[k]) <= Pixels(r)
          /\ selection.preferredQuality = "lowest" =>
                \A k \in 1..n : Pixels(vs[k]) >= Pixels(r)
          /\ selection.preferredQuality = "auto" =>
                Cardinality({ k \in 1..n : vs[k].bandwidth < r.bandwidth }) = n \div 2

\* auto on three consistently ordered variants given out of order returned
\* the one in the middle.
C20_Witness ==
    /\ op = "findHighestQuality"
    /\ pc = "done"
    /\ selection.preferredQuality = "auto"
    /\ selection.maxBitrate = 0
    /\ Len(selection.variants) = 3
    /\ ConsistentVariants(selection.variants)
    /\ selection.variants[1].bandwidth > selection.variants[2].bandwidth
    /\ \E a, b \in 1..3 : /\ selection.variants[a].bandwidth < result.variant.bandwidth
                          /\ selection.variants[b].bandwidth > result.variant.bandwidth

----------------------------------------------------------------------------
(* Properties of getVideoSource *)

IsGetVideoSource == op = "getVideoSource"

\* The fetch of a playlist was answered by a network error or by a response
\* with a non-success status.
FetchFailed(f) == f.kind = "playlist" /\ f.answer \in {"threw", "status"}

\* The pieces of a URL in lower case, and the extensions of direct media.
LowerPieces(url) == { ToLowerCase(url[k]) : k \in 1..Len(url) }
DirectExtensions == {".mp4", ".webm", ".ogg", ".mov", ".avi", ".mkv"}

\* getVideoSource returned null.
ReturnedNull == pc = "done" /\ outcome.status = "returned" /\ outcome.source.isNull

\* C11 (as claimed): getVideoSource on an .m3u8 URL never throws, and it
\* returns null whenever one of its playlist fetches, the first or the second,
\* failed with a network error or a non-success status.
C11_AnyFetchFailureGivesNull ==
    IsGetVideoSource =>
      /\ outcome.status # "threw"
      /\ (pc = "done" /\ \E k \in 1..Len(fetches) : FetchFailed(fetches[k])) =>
            ReturnedNull

\* C11 (amended): getVideoSource on an .m3u8 URL never throws; it returns
\* null, without a second fetch, whenever the fetch of the given playlist
\* fails with a network error or a non-success status; once the second fetch
\* for the selected variant was issued, the source of the variant (its URL,
\* type m3u8, its quality) is returned whatever that fetch answers.
C11_FirstFetchFailureGivesNull ==
    IsGetVideoSource =>
      /\ outcome.status # "threw"
      /\ pc # "failed"
      /\ (Len(fetches) >= 1 /\ FetchFailed(fetches[1])) =>
            /\ ReturnedNull
            /\ Len(fetches) = 1
      /\ (pc = "done" /\ Len(fetches) >= 2 /\ fetches[2].kind = "playlist") =>
            /\ outcome.status = "returned"
            /\ ~outcome.source.isNull
            /\ outcome.source.type = "m3u8"
            /\ outcome.source.url = fetches[2].url
            /\ outcome.source.quality.given

\* The fetch of the given playlist was answered with a non-success status
\* and null was returned.
C11_Witness ==
    /\ IsGetVideoSource
    /\ Len(fetches) = 1
    /\ fetches[1].answer = "status"
    /\ ReturnedNull

\* C12: for a fetched master playlist, the returned url and quality are
\* those of the variant findHighestQuality returns for the parsed variants
\* under the configured preferredQuality and maxBitrate.
C12_VariantByConfiguredPolicy ==
    LET v == findHighestQuality(parsed.playlist.variants, request.preferredQuality,
                                request.maxBitrate)
    IN  (IsGetVideoSource /\ pc = "done" /\ parsed.playlist.isMaster /\ v.id # 0) =>
          /\ ~outcome.source.isNull
          /\ outcome.source.url = resolveUrl(v.url, Given(request.url)).s
          /\ outcome.source.quality = variantToQuality(v)

\* C13: a URL with a direct-media extension is returned as {url, type:
\* direct}, and a URL with neither such an extension nor .m3u8 (a .mpd URL,
\* an unrecognized URL) gives null, in each case without any fetch.
C13_NoFetchForNonPlaylists ==
    IsGetVideoSource =>
      /\ LowerPieces(request.url) \cap DirectExtensions # {} =>
            /\ pc = "done"
            /\ outcome.status = "returned"
            /\ outcome.source = Source(request.url, "direct", NoQuality, request.headers)
            /\ fetches = <<>>
      /\ LowerPieces(request.url) \cap (DirectExtensions \cup {".m3u8"}) = {} =>
            /\ ReturnedNull
            /\ fetches = <<>>

\* getVideoSource was called with a .mpd URL and with headers.
C13_Witness ==
    /\ IsGetVideoSource
    /\ ".mpd" \in LowerPieces(request.url)
    /\ request.headers.given
    /\ ReturnedNull
    /\ fetches = <<>>

\* C14: the header map supplied by the caller is what every fetch issued for
\* the request is given: the fetch of the given playlist, the fetch of the
\* variant playlist, and each segment fetch.
C14_HeadersOnEveryFetch ==
    (IsGetVideoSource /\ request.headers.given) =>
      \A k \in 1..Len(fetches) : fetches[k].init.headers = request.headers.fields

----------------------------------------------------------------------------
(* Properties of the parsers *)

IsParseM3U8 == op = "parseM3U8"

\* The URL lines of a text as written.
WrittenUrls(lines) == { lines[i].s : i \in { j \in 1..Len(lines) : lines[j].k = "url" } }

\* Positions of the directives of kind k that are followed by a URL line, and
\* the j-th of them in file order.
Pairs(lines, k) ==
    { i \in 1..Len(lines) : lines[i].k = k /\ i < Len(lines) /\ lines[i + 1].k = "url" }
NthPair(lines, k, j) ==
    CHOOSE i \in Pairs(lines, k) : Cardinality({ p \in Pairs(lines, k) : p < i }) = j - 1

\* A media-playlist text: no stream-info directive, and every EXTINF of a
\* pair declares a duration.
IsMediaText(lines) ==
    /\ \A i \in 1..Len(lines) : lines[i].k # "streamInf"
    /\ \A i \in Pairs(lines, "extinf") : lines[i].num.kind = "number"

\* A master-playlist text: at least one stream-info directive, each followed
\* by a URL line, and no EXTINF.
IsMasterText(lines) ==
    /\ \E i \in 1..Len(lines) : lines[i].k = "streamInf"
    /\ \A i \in 1..Len(lines) :
          /\ lines[i].k = "streamInf" => i \in Pairs(lines, "streamInf")
          /\ lines[i].k # "extinf"

\* C15: parseM3U8 never fails: for every text and every choice of base URL
\* it returns a playlist.
C15_ParseNeverFails ==
    IsParseM3U8 => (pc = "done" /\ outcome.status = "returned")

\* C16: for a media-playlist text with N EXTINF/URL pairs the parser returns
\* a non-master playlist with exactly N segments, at positions 0..N-1 in file
\* order, each with the declared duration of its own pair.
C16_SegmentPerPair ==
    LET lines == request.content
        n == Cardinality(Pairs(lines, "extinf"))
        segs == outcome.playlist.segments
    IN  (IsParseM3U8 /\ IsMediaText(lines)) =>
          /\ outcome.status = "returned"
          /\ ~outcome.playlist.isMaster
          /\ Len(segs) = n
          /\ \A j \in 1..n :
                /\ segs[j].sequence = j - 1
                /\ segs[j].duration = Number(lines[NthPair(lines, "extinf", j)].num.n)

\* C17: for a master-playlist text with N stream-info directives, each
\* followed by a URL line, parseM3U8 returns isMaster = true and exactly N
\* variants in file order, each with the bandwidth (0 when omitted),
\* resolution, codecs and framerate of its own directive, an omitted
\* attribute being absent.
C17_VariantPerStreamInf ==
    LET lines == request.content
        n == Cardinality(Pairs(lines, "streamInf"))
        vs == outcome.playlist.variants
    IN  (IsParseM3U8 /\ IsMasterText(lines)) =>
          /\ outcome.status = "returned"
          /\ outcome.playlist.isMaster
          /\ Len(vs) = n
          /\ \A j \in 1..n :
                LET a == lines[NthPair(lines, "streamInf", j)].attrs
                IN  /\ vs[j].bandwidth =
                          (IF a["BANDWIDTH"].given THEN a["BANDWIDTH"].v[1] ELSE 0)
                    /\ vs[j].hasResolution = a["RESOLUTION"].given
                    /\ a["RESOLUTION"].given =>
                          /\ vs[j].width = a["RESOLUTION"].v[1]
                          /\ vs[j].height = a["RESOLUTION"].v[2]
                    /\ vs[j].codecs = a["CODECS"]
                    /\ vs[j].framerate =
                          (IF a["FRAME-RATE"].given
                             THEN Number(a["FRAME-RATE"].v[1]) ELSE NoNumber)

\* C18: without a base URL parseM3U8 resolves nothing: it returns, and every
\* variant URL and segment URL of the result is a URL line as written.
C18_NoBaseNoResolution ==
    (IsParseM3U8 /\ ~request.baseUrl.given) =>
      /\ outcome.status = "returned"
      /\ \A j \in 1..Len(outcome.playlist.variants) :
            outcome.playlist.variants[j].url \in WrittenUrls(request.content)
      /\ \A j \in 1..Len(outcome.playlist.segments) :
            outcome.playlist.segments[j].url \in WrittenUrls(request.content)

\* The resolution rule: a URL with an http:// or https:// scheme is
\* unchanged, a URL beginning with '/' becomes base scheme + host + URL, any
\* other URL is appended to the directory of the base (scheme + host + the
\* base path up to and including its last '/').
BaseOrigin(base) == SubSeq(base, 1, 2)
BasePath(base) ==
    LET path == SubSeq(base, 3, FirstQuery(base, 3) - 1)
    IN  IF path = <<>> THEN <<"/">> ELSE path
BaseDirectory(base) == BaseOrigin(base) \o SubSeq(BasePath(base), 1, LastSlash(BasePath(base)))
ResolutionRule(url, base) ==
    IF Len(url) > 0 /\ url[1] \in {"http://", "https://"} THEN url
    ELSE IF Len(url) > 0 /\ url[1] = "/" THEN BaseOrigin(base) \o url
    ELSE BaseDirectory(base) \o url

ResolvedUrls == { ResolutionRule(u, request.baseUrl.s) : u \in WrittenUrls(request.content) }

\* C19: with a base URL, every URL of a result of either parser is a URL
\* line of the text resolved by the resolution rule.
C19_ResolutionRule ==
    (request.baseUrl.given /\ outcome.status = "returned") =>
      /\ IsParseM3U8 =>
            /\ \A j \in 1..Len(outcome.playlist.variants) :
                  outcome.playlist.variants[j].url \in ResolvedUrls
            /\ \A j \in 1..Len(outcome.playlist.segments) :
                  outcome.playlist.segments[j].url \in ResolvedUrls
      /\ op = "parseSegmentsFromM3U8" =>
            \A j \in 1..Len(outcome.list.segments) :
                outcome.list.segments[j].url \in ResolvedUrls

----------------------------------------------------------------------------
(* Properties of the selector under a bitrate ceiling *)

IsSelection == op = "findHighestQuality"

\* Every variant of the list is above the ceiling; some variant is within it.
AllAbove(vs, ceiling) == \A k \in 1..Len(vs) : vs[k].bandwidth > ceiling
SomeWithin(vs, ceiling) == \E k \in 1..Len(vs) : vs[k].bandwidth <= ceiling

\* C21: with maxBitrate set and every variant of a non-empty list above it,
\* the selection under any preference is never null and is a variant of the
\* list of lowest bandwidth.
C21_AllAboveGivesLowestBandwidth ==
    LET vs == selection.variants
        r == result.variant
    IN  (IsSelection /\ Len(vs) > 0 /\ selection.maxBitrate > 0
            /\ AllAbove(vs, selection.maxBitrate)) =>
          /\ r.id # 0
          /\ \E k \in 1..Len(vs) : vs[k] = r
          /\ \A k \in 1..Len(vs) : r.bandwidth <= vs[k].bandwidth

\* C22: with maxBitrate set and at least one variant within it, the
\* selection under any preference is a variant of the list whose bandwidth
\* is within maxBitrate.
C22_SelectionWithinCeiling ==
    LET vs == selection.variants
        r == result.variant
    IN  (IsSelection /\ selection.maxBitrate > 0
            /\ SomeWithin(vs, selection.maxBitrate)) =>
          /\ r.id # 0
          /\ \E k \in 1..Len(vs) : vs[k] = r
          /\ r.bandwidth <= selection.maxBitrate

\* Preference highest returned a variant within the ceiling although the
\* list holds a variant of larger pixel area and bandwidth above the ceiling.
C22_Witness ==
    /\ IsSelection
    /\ pc = "done"
    /\ selection.preferredQuality = "highest"
    /\ selection.maxBitrate > 0
    /\ result.variant.id # 0
    /\ result.variant.bandwidth <= selection.maxBitrate
    /\ \E k \in 1..Len(selection.variants) :
          /\ selection.variants[k].bandwidth > selection.maxBitrate
          /\ selection.variants[k].hasResolution
          /\ result.variant.hasResolution
          /\ Pixels(selection.variants[k]) > Pixels(result.variant)

----------------------------------------------------------------------------
(* Properties of concatenateSegments *)

IsConcatenation == op = "concatenateSegments"

\* The bytes of the defined entries of an array, in array order.
RECURSIVE DefinedBytes(_)
DefinedBytes(arr) ==
    IF arr = <<>> THEN <<>>
    ELSE (IF Head(arr).defined THEN Head(arr).bytes ELSE <<>>) \o DefinedBytes(Tail(arr))

RECURSIVE DefinedLength(_)
DefinedLength(arr) ==
    IF arr = <<>> THEN 0
    ELSE (IF Head(arr).defined THEN Len(Head(arr).bytes) ELSE 0) + DefinedLength(Tail(arr))

HasDefined(arr) == \E k \in 1..Len(arr) : arr[k].defined
HasHole(arr) == \E k \in 1..Len(arr) : ~arr[k].defined

\* C23: concatenateSegments fails exactly when the array is empty or has no
\* defined entry; otherwise, holes included, it returns the bytes of the
\* defined entries in array order, with size the sum of their byte lengths.
C23_ConcatenationSkipsHoles ==
    IsConcatenation =>
      /\ HasDefined(downloadedSegments) =>
            /\ pc = "done"
            /\ result.status = "ok"
            /\ result.blob = DefinedBytes(downloadedSegments)
            /\ result.size = DefinedLength(downloadedSegments)
      /\ ~HasDefined(downloadedSegments) =>
            /\ pc = "failed"
            /\ result.status = "error"
            /\ result.error.kind = IF downloadedSegments = <<>>
                                      THEN "No segments to concatenate"
                                      ELSE "No valid segments to concatenate"

\* An array with a hole between two non-empty buffers was concatenated.
C23_Witness ==
    /\ IsConcatenation
    /\ pc = "done"
    /\ Len(downloadedSegments) = 3
    /\ downloadedSegments[1] = Buffer(<<8, 9>>)
    /\ downloadedSegments[2] = Undefined
    /\ downloadedSegments[3] = Buffer(<<7>>)
    /\ result.blob = <<8, 9, 7>>
    /\ result.size = 3

----------------------------------------------------------------------------
(* Properties of the byte counter, the backoff delays and the admission order *)

\* The bodies fetched for the input segments, in list order.
FetchedBodies == [k \in 1..Len(segments) |-> fetchLog[segments[k].index].body]

\* C26: throughout a download the byte counter is the sum of the byte
\* lengths of the segments stored so far, the latest progress report carries
\* that sum as bytesDownloaded, and the size of a returned result is the sum
\* of the byte lengths of the bodies fetched for all input segments.
C26_ByteCounter ==
    IsDownload =>
      /\ totalBytesDownloaded = DefinedLength(downloadedSegments)
      /\ progressCount >= 1 =>
            lastProgress.bytesDownloaded = DefinedLength(downloadedSegments)
      /\ pc = "done" =>
            /\ result.size = SumLen(FetchedBodies)
            /\ \A k \in 1..Len(segments) : Len(FetchedBodies[k]) > 0

\* A download of two segments with bodies of different lengths returned
\* after reporting the whole sum.
C26_Witness ==
    /\ IsDownload
    /\ pc = "done"
    /\ onProgress = "ok"
    /\ Len(segments) = 2
    /\ Len(FetchedBodies[1]) # Len(FetchedBodies[2])
    /\ lastProgress.bytesDownloaded = 3
    /\ result.size = 3

RECURSIVE Sum(_)
Sum(s) == IF s = <<>> THEN 0 ELSE Head(s) + Sum(Tail(s))

\* C27: the wait that follows failed attempt number n (zero-based) lasts
\* retryDelay * 2^n and is entered only with n < maxRetries; attempt number
\* n is started after exactly n waits; no wait follows the final failed
\* attempt, so a segment that exhausted its retries waited exactly maxRetries
\* times, retryDelay * (2^maxRetries - 1) in total.
C27_ExponentialBackoff ==
    IsDownload =>
      \A i \in Indices :
        LET t == task[i]
        IN  /\ \A n \in 1..Len(t.waits) : t.waits[n] = retryDelay * 2 ^ (n - 1)
            /\ Len(t.waits) <= maxRetries
            /\ t.st = "fetching" => Len(t.waits) = t.attempt
            /\ t.st = "sleeping" => Len(t.waits) = t.attempt + 1
            /\ Exhausted(i) =>
                  /\ Len(t.waits) = maxRetries
                  /\ Sum(t.waits) = retryDelay * (2 ^ maxRetries - 1)

\* A segment exhausted three retries after waits of retryDelay, 2 * retryDelay
\* and 4 * retryDelay.
C27_Witness ==
    /\ IsDownload
    /\ maxRetries = 3
    /\ retryDelay = 3
    /\ \E i \in Indices :
          /\ Exhausted(i)
          /\ task[i].waits = <<3, 6, 12>>
          /\ fetchLog[i].calls = 4

\* C28: the first transport invocations follow the order of the input list:
\* a segment is first fetched only after every segment before it in the list
\* was; a segment is admitted once, so as long as no fetch failed the
\* transport was invoked at most once per segment, and exactly N times when
\* such a download returned.
C28_AdmissionInListOrder ==
    IsDownload =>
      /\ \A a, b \in 1..Len(segments) :
            (a < b /\ fetchLog[segments[b].index].calls > 0) =>
                /\ fetchLog[segments[a].index].calls > 0
                /\ fetchLog[segments[a].index].order < fetchLog[segments[b].index].order
      /\ \A i \in Indices \ InputIndices : fetchLog[i].calls = 0
      /\ (\A i \in Indices : fetchLog[i].failures = 0) =>
            /\ \A i \in Indices : fetchLog[i].calls <= 1
            /\ pc = "done" =>
                  Sum([k \in 1..Len(segments) |-> fetchLog[segments[k].index].calls])
                      = Len(segments)

\* A list given against its index order was downloaded one segment at a
\* time without a failure: the first of the list was fetched first.
C28_Witness ==
    /\ IsDownload
    /\ pc = "done"
    /\ maxConcurrent = 1
    /\ Len(segments) = 2
    /\ segments[1].index > segments[2].index
    /\ fetchLog[segments[1].index].order = 1
    /\ fetchLog[segments[2].index].order = 2
    /\ \A i \in Indices : fetchLog[i].failures = 0

----------------------------------------------------------------------------
(* Termination of downloadSegments *)

Settled == pc \in {"done", "failed"}

\* C29: when every transport call settles and every backoff delay elapses,
\* a download of a non-empty list with maxConcurrent >= 1 settles, whatever
\* the transport answers and whenever cancellation is requested.
C29_DownloadSettles ==
    (IsDownload /\ segments # <<>> /\ maxConcurrent >= 1) ~> Settled

\* A download with a full window returned after a failed attempt and after
\* cancellation was requested.
C29_Witness ==
    /\ IsDownload
    /\ maxConcurrent >= 1
    /\ Len(segments) >= 2
    /\ pc = "done"
    /\ aborted
    /\ \E i \in Indices : fetchLog[i].failures >= 1

\* C30: with maxConcurrent = 0, a non-empty list and no cancellation
\* requested at the call, the coordinator spins: no segment is admitted, no
\* transport call is issued, nothing is settled, and no step (a settlement, a
\* cancellation request) ever follows.
C30_ZeroConcurrencySpins ==
    /\ []((IsDownload /\ maxConcurrent = 0 /\ segments # <<>> /\ ~aborted) =>
            /\ pc = "spin"
            /\ result.status = "none"
            /\ ~abortSeen
            /\ downloadQueue = segments
            /\ activeDownloads = {}
            /\ \A i \in Indices : fetchLog[i].calls = 0 /\ task[i].st = "none")
    /\ [][(IsDownload /\ maxConcurrent = 0 /\ segments # <<>> /\ ~aborted) => FALSE]_vars

\* The coordinator spins on a list of two segments.
C30_Witness ==
    /\ IsDownload
    /\ maxConcurrent = 0
    /\ Len(segments) = 2
    /\ ~aborted
    /\ pc = "spin"

----------------------------------------------------------------------------
(* Properties of DownloadManager.initiateDownload *)

\* The initiateDownload call of the client has resolved.
DirectDone == op = "initiateDownload" /\ invocation[0].pc = "done"
NoSource(d) == ~d.options.url /\ ~d.options.blob
Supplied(d) == d.options.filename.given /\ d.options.filename.s # <<>>

\* A name every validation accepts, whatever the shared pattern remembers:
\* neither empty nor too long, without forbidden character, not reserved,
\* no dot at either end, no two dots in a row.
PlainName(s) ==
    /\ s # <<>>
    /\ CharLength(s) <= maxFilenameLength
    /\ \A k \in 1..Len(s) : s[k] \notin ForbiddenUnits
    /\ ~IsReserved(s)
    /\ s[1] # "." /\ s[Len(s)] # "."
    /\ ~HasDoubleDot(s)

----------------------------------------------------------------------------
(* Properties of DownloadProgressManager.startDownload *)

\* The startDownload calls for id that were admitted and have not settled.
Unsettled(id) ==
    { k \in Calls : startCall[k].video.id = id /\ startCall[k].pc \in {"preparing", "downloading"} }

\* The initiateDownload invocations in flight for id.
InitiationsInFlight(id) ==
    { k \in Calls : startCall[k].video.id = id /\ startCall[k].pc = "downloading"
                    /\ invocation[k].pc \in {"download", "search", "timer"} }

\* A step in which a client calls startDownload for id and the call takes
\* place k.
IsStartCall(k, id) ==
    /\ op' = "startDownload"
    /\ startCall[k].pc \in {"none", "skipped", "done"}
    /\ startCall'[k] # startCall[k] \/ invocation'[k] # invocation[k]
    /\ startCall'[k].video.id = id

\* C25: with startDownload calls only, a startDownload for an id with a call
\* in progress returns without calling initiateDownload, at most one
\* initiateDownload is in flight per video id, an id is active exactly while
\* an admitted call for it has not settled, and a startDownload for an id
\* without a call in progress is admitted.
C25_OneDownloadPerId ==
    /\ [](\A id \in VideoIds :
            /\ Cardinality(Unsettled(id)) <= 1
            /\ Cardinality(InitiationsInFlight(id)) <= 1
            /\ id \in managerActive <=> Unsettled(id) # {})
    /\ [](\A k \in Calls : startCall[k].pc = "skipped" => invocation[k] = NoInvocation)
    /\ [][\A k \in Calls, id \in VideoIds :
            IsStartCall(k, id)
              => IF Unsettled(id) # {}
                   THEN startCall'[k].pc = "skipped" /\ invocation'[k] = NoInvocation
                   ELSE startCall'[k].pc \in {"preparing", "done"}]_vars

\* A second call for v1 was turned away, the first one has its download in
\* flight, and an earlier call for v2 has settled and v2 is active no more.
C25_Witness ==
    /\ startCall[1].video.id = "v1" /\ startCall[1].pc = "downloading"
    /\ invocation[1].pc = "search"
    /\ startCall[2].video.id = "v1" /\ startCall[2].pc = "skipped"
    /\ managerActive = {"v1"}

----------------------------------------------------------------------------
(* Properties of downloadSegments after a failure and under a late cancellation *)

\* downloadSegments has failed because the retries of one segment were used up.
FailedBySegment ==
    /\ IsDownload
    /\ pc = "failed"
    /\ result.status = "error"
    /\ result.error.kind = "Failed to download segment after retries"

\* C31: after downloadSegments has failed because one segment failed
\* terminally, the segments still in flight go on: unless cancellation is
\* requested, a sibling whose backoff ends issues its next transport call, a
\* sibling whose fetch fails with retries left sleeps for its next attempt,
\* and a sibling whose fetch succeeds is stored and reported to onProgress;
\* in every such state each sibling in flight has its next step enabled.
C31_SiblingsKeepRunning ==
    /\ []((FailedBySegment /\ ~aborted) =>
            \A i \in Indices :
                /\ task[i].st = "sleeping" => ENABLED SleepElapses(i)
                /\ task[i].st = "fetching" => ENABLED FetchSettles(i, Response(TRUE, <<i>>)))
    /\ [][(FailedBySegment /\ ~aborted) =>
            \A i \in Indices :
                /\ (task[i].st = "sleeping" /\ task'[i] # task[i]) =>
                      /\ task'[i].st = "fetching"
                      /\ fetchLog'[i].calls = fetchLog[i].calls + 1
                /\ (task[i].st = "fetching" /\ task'[i] # task[i]
                        /\ fetchLog'[i].failures > fetchLog[i].failures
                        /\ task[i].attempt < maxRetries) =>
                      task'[i].st = "sleeping"
                /\ (task[i].st = "fetching" /\ task'[i].st = "fulfilled") =>
                      /\ downloadedSegments'[i + 1] = Buffer(task'[i].value)
                      /\ onProgress # "none" =>
                            /\ progressCount' = progressCount + 1
                            /\ fetchLog'[i].lateProgress]_vars

\* After the download failed on one segment, the other one issued a retry
\* and reported its progress.
C31_Witness ==
    /\ FailedBySegment
    /\ ~aborted
    /\ \E i \in Indices :
          /\ fetchLog[i].late >= 1
          /\ fetchLog[i].lateProgress
          /\ task[i].st = "fulfilled"
    /\ progressCount >= 1

\* The pending queue is empty, one fetch is in flight, the coordinator
\* awaits it and cancellation has been requested.
LateAbort(i) ==
    /\ IsDownload
    /\ pc = "await"
    /\ aborted
    /\ downloadQueue = <<>>
    /\ activeDownloads = {i}
    /\ task[i].st = "fetching"

\* C32: when cancellation is requested while the queue is empty and a single
\* fetch is in flight, and that fetch succeeds, downloadSegments returns the
\* result made of all segments of the list, not the aborted error.
C32_LateAbortReturns ==
    [][\A i \in Indices :
         (LateAbort(i) /\ task'[i].st = "fulfilled") =>
            /\ pc' = "done"
            /\ result'.status = "ok"
            /\ ~abortSeen'
            /\ CompletedCount(downloadedSegments') = Len(segments)
            /\ result'.blob = DefinedBytes(downloadedSegments')
            /\ result'.size = SumLen([k \in 1..Len(segments) |->
                                        fetchLog'[segments[k].index].body])]_vars

\* A download of two segments returned both although cancellation had been
\* requested before the last fetch was answered.
C32_Witness ==
    /\ IsDownload
    /\ pc = "done"
    /\ aborted
    /\ ~abortSeen
    /\ Len(segments) = 2
    /\ result.status = "ok"
    /\ CompletedCount(downloadedSegments) = 2

----------------------------------------------------------------------------
(* Properties of the fetches and of the classification of getVideoSource *)

\* The playlist fetches issued so far, in order.
PlaylistFetches == SelectSeq(fetches, LAMBDA f : f.kind = "playlist")

C34_ClassificationPriority ==
    LET pieces == LowerPieces(request.url)
    IN  IsGetVideoSource =>
          CASE pieces \cap DirectExtensions # {} ->
                 /\ pc = "done"
                 /\ fetches = <<>>
                 /\ ~outcome.source.isNull
                 /\ outcome.source.type = "direct"
                 /\ outcome.source.url = request.url
            [] pieces \cap DirectExtensions = {} /\ ".m3u8" \in pieces ->
                 /\ Len(fetches) >= 1
                 /\ fetches[1].url = request.url
                 /\ ~outcome.source.isNull => outcome.source.type = "m3u8"
            [] OTHER ->
                 /\ pc = "done"
                 /\ fetches = <<>>
                 /\ outcome.source.isNull

\* A URL with .mp4 in its path and .m3u8 at its end was returned as direct.
C34_Witness ==
    /\ IsGetVideoSource
    /\ pc = "done"
    /\ request.url[Len(request.url)] = ".m3u8"
    /\ ".mp4" \in LowerPieces(request.url)
    /\ outcome.source.type = "direct"
    /\ fetches = <<>>

----------------------------------------------------------------------------
(* Properties of the parsers on segment durations and on liveness markers *)

IsParse == op \in {"parseM3U8", "parseSegmentsFromM3U8"}

\* EXTINF lines of the text that have a URL line after them.
FollowedExtInf(lines) ==
    { i \in 1..Len(lines) :
        lines[i].k = "extinf" /\ \E j \in (i + 1)..Len(lines) : lines[j].k = "url" }

\* The durations and the numbers of the segments a parser returned, in
\* order; the duration is 0 for one that is no number.
EmittedDurations ==
    IF op = "parseM3U8"
      THEN [k \in 1..Len(outcome.playlist.segments) |->
              IF outcome.playlist.segments[k].duration.kind = "number"
                THEN outcome.playlist.segments[k].duration.n ELSE 0]
      ELSE [k \in 1..Len(outcome.list.segments) |-> outcome.list.segments[k].duration]
EmittedNumbers ==
    IF op = "parseM3U8"
      THEN [k \in 1..Len(outcome.playlist.segments) |-> outcome.playlist.segments[k].sequence]
      ELSE [k \in 1..Len(outcome.list.segments) |-> outcome.list.segments[k].index]

\* C35: a parser emits a segment only for an EXTINF directive with a
\* duration greater than 0 that is followed by a URL line: every emitted
\* segment has a duration greater than 0, there are no more segments than
\* EXTINF lines with a URL line after them, and the segments are numbered
\* 0..N-1 whatever EXTINF lines stay without URL.
C35_SegmentsNeedPositiveDuration ==
    (IsParse /\ pc = "done") =>
      /\ \A k \in 1..Len(EmittedDurations) : EmittedDurations[k] > 0
      /\ Len(EmittedDurations) <= Cardinality(FollowedExtInf(request.content))
      /\ \A k \in 1..Len(EmittedNumbers) : EmittedNumbers[k] = k - 1

HasEndList(lines) == \E i \in 1..Len(lines) : lines[i].k = "endlist"
HasVod(lines) == \E i \in 1..Len(lines) : lines[i] = PlaylistTypeLine("VOD")
HasPlaylistType(lines) == \E i \in 1..Len(lines) : lines[i].k = "playlistType"

\* C36: a text with an end-of-list directive or a VOD playlist-type
\* directive parses to isLive = false whatever precedes or follows the
\* directive; a text without end-of-list and playlist-type directive parses
\* to isLive = true when it has segments and leaves isLive unset when it has
\* none.
C36_EndMarkerMeansNotLive ==
    (op = "parseM3U8" /\ pc = "done") =>
      LET lines == request.content
          playlist == outcome.playlist
      IN  /\ (HasEndList(lines) \/ HasVod(lines)) => playlist.isLive = "false"
          /\ (~HasEndList(lines) /\ ~HasPlaylistType(lines)) =>
                playlist.isLive = IF playlist.segments # <<>> THEN "true" ELSE "unset"

----------------------------------------------------------------------------
(* Properties of the selector on mixed variant lists *)

\* The pairwise rule: a beats b for preference highest.
Beats(a, b) ==
    IF a.hasResolution /\ b.hasResolution /\ Pixels(a) # Pixels(b)
      THEN Pixels(a) > Pixels(b)
      ELSE a.bandwidth > b.bandwidth

\* The pairwise rule for preference lowest.
BeatsLowest(a, b) ==
    IF a.hasResolution /\ b.hasResolution /\ Pixels(a) # Pixels(b)
      THEN Pixels(a) < Pixels(b)
      ELSE a.bandwidth < b.bandwidth

\* The list in the order given by the permutation p of its positions.
Reordered(variants, p) == [k \in 1..Len(variants) |-> variants[p[k]]]

\* C37: with preference highest and no maxBitrate no variant of the list
\* beats the selected one under the pairwise rule, and the selection from
\* any reordering of the list neither beats it nor is beaten by it (variants
\* that tie under the rule count as the same selection); likewise for
\* preference lowest.
C37_SelectionUnbeaten ==
    (IsSelection /\ pc = "done" /\ selection.maxBitrate = 0
        /\ selection.variants # <<>>
        /\ selection.preferredQuality \in {"highest", "lowest"}) =>
      LET variants == selection.variants
          chosen == result.variant
          beats(a, b) == IF selection.preferredQuality = "highest"
                           THEN Beats(a, b) ELSE BeatsLowest(a, b)
      IN  /\ \A k \in 1..Len(variants) : ~beats(variants[k], chosen)
          /\ \A p \in Permutations(1..Len(variants)) :
                LET other == findHighestQuality(Reordered(variants, p),
                                                selection.preferredQuality, 0)
                IN  ~beats(other, chosen) /\ ~beats(chosen, other)

----------------------------------------------------------------------------
(* Properties of startDownload under cancelDownload *)

\* The startDownload calls for id that were admitted and have neither
\* settled nor been cancelled.
Uncancelled(id) ==
    { k \in Unsettled(id) : startCall[k].outcome # "cancelled" }

\* C38: under any interleaving of startDownload and cancelDownload calls,
\* while an admitted startDownload for an id has neither settled nor been
\* cancelled, isDownloading(id) is true and a further startDownload for the
\* id returns without calling initiateDownload.
C38_AdmittedStaysActive ==
    /\ [](\A id \in VideoIds : Uncancelled(id) # {} => IsActive(managerActive, id))
    /\ [][\A k \in Calls, id \in VideoIds :
            (IsStartCall(k, id) /\ Uncancelled(id) # {})
              => startCall'[k].pc = "skipped" /\ invocation'[k] = NoInvocation]_vars

----------------------------------------------------------------------------
(* Properties of filename validation across initiateDownload calls *)

\* The filename the caller supplied contains a forbidden character.
SuppliedForbidden(d) ==
    /\ Supplied(d)
    /\ \E k \in 1..Len(d.options.filename.s) : d.options.filename.s[k] \in ForbiddenUnits

\* C39: in every sequence of initiateDownload calls on the shared
\* DownloadManager, with the downloads API available, a call whose supplied
\* filename contains a forbidden character fails with 'Invalid filename
\* generated' and never calls chrome.downloads.download, whatever filenames
\* the calls before it validated.
C39_ForbiddenAlwaysRejected ==
    (op = "initiateDownload" /\ invocation[0].pc # "none" /\ invocation[0].api
        /\ SuppliedForbidden(invocation[0])) =>
      /\ invocation[0].pc = "done"
      /\ invocation[0].result = Failed("Invalid filename generated")
      /\ invocation[0].downloads = 0

====
